---- MODULE Spec2Model ----
(***************************************************************************)
(* Feature resolution and runtime composition of lit-feature.              *)
(*                                                                         *)
(* Host classes form the prototype chain                                   *)
(*     LitElement <- LitCore <- A <- B <- C                                *)
(* and feature classes the chain LitFeature <- F1 <- F2, LitFeature <- G1. *)
(* Static fields and symbol-keyed metadata are ordinary JavaScript         *)
(* properties of the constructor: a read that is not guarded by            *)
(* hasOwnProperty finds the nearest own value on the prototype chain.      *)
(***************************************************************************)
EXTENDS Integers, Sequences, FiniteSets, TLC

\* ------------------------------------------------------------------------
\* Bounds
\* ------------------------------------------------------------------------
\* number of provide/configure declarations written in the class hierarchy
MaxDecls == 2
\* cap on the number of times the chain of one class is folded
MaxFolds == 2

\* ------------------------------------------------------------------------
\* Values
\* ------------------------------------------------------------------------
\* Feature names, in the order they are written inside one object literal
Names == <<"F", "G", "H">>

\* The empty plain object {}
EmptyObj == [k \in {} |-> 0]

\* A config value is a number or a nested plain object
Num(n) == [t |-> "num", n |-> n, o |-> EmptyObj]

Obj(f) == [t |-> "obj", n |-> 0, o |-> f]

\* lodash.merge of one source into a destination: plain objects are merged
\* recursively (and cloned), every other source value replaces
RECURSIVE baseMerge(_, _)
baseMerge(obj, src) ==
  [k \in (DOMAIN obj) \cup (DOMAIN src) |->
     IF k \notin DOMAIN src THEN obj[k]
     ELSE IF src[k].t = "obj"
          THEN Obj(baseMerge(IF k \in DOMAIN obj /\ obj[k].t = "obj"
                             THEN obj[k].o ELSE EmptyObj, src[k].o))
          ELSE src[k]]

\* a merge that replaces whole top-level keys, like Object.assign({}, a, b)
mergeShallow(a, b) ==
  [k \in (DOMAIN a) \cup (DOMAIN b) |-> IF k \in DOMAIN b THEN b[k] ELSE a[k]]

\* merge({}, a, b)
merge(a, b) == baseMerge(baseMerge(EmptyObj, a), b)

\* ------------------------------------------------------------------------
\* Ordered maps (JavaScript Map / object key order): sequences of
\* [name, val] with distinct names; set() keeps the position of a key
\* ------------------------------------------------------------------------
MapHas(m, k) == \E i \in 1..Len(m) : m[i].name = k

MapGet(m, k) == m[CHOOSE i \in 1..Len(m) : m[i].name = k].val

MapSet(m, k, v) ==
  IF MapHas(m, k)
  THEN [i \in 1..Len(m) |-> IF m[i].name = k THEN [name |-> k, val |-> v] ELSE m[i]]
  ELSE Append(m, [name |-> k, val |-> v])

MapKeys(m) == {m[i].name : i \in 1..Len(m)}

\* ------------------------------------------------------------------------
\* Feature classes (LitFeature subclasses)
\* ------------------------------------------------------------------------
FeatureClasses == {"LitFeature", "F1", "F2", "F3", "F4", "F5", "G1", "H1"}

\* Object.getPrototypeOf(featureClass)
FeatParent(f) ==
  CASE f = "F2" -> "F1"
    [] f = "F1" -> "LitFeature"
    [] f = "F4" -> "F3"
    [] f = "F5" -> "F1"
    [] f = "F3" -> "LitFeature"
    [] f = "G1" -> "LitFeature"
    [] f = "H1" -> "LitFeature"
    [] OTHER -> "null"

\* own static [LIT_FEATURE_MARKER]
FeatOwnMarker(f) == f = "LitFeature"

\* own static properties of a feature class (hasOwn, value): F1, G1 and H1
\* write a static properties field; F2 declares r and F3 declares p with the
\* property decorator, which also writes the own static properties; F4
\* extends F3 and declares p again, and r, in a static properties field;
\* F5 extends F1 and writes a static properties field that declares r only
FeatOwnProps(f) ==
  CASE f = "LitFeature" -> [has |-> TRUE, val |-> EmptyObj]
    [] f = "F1" -> [has |-> TRUE, val |-> ("p" :> "d1") @@ ("q" :> "d1")]
    [] f = "F2" -> [has |-> TRUE, val |-> ("p" :> "d1") @@ ("q" :> "d1") @@ ("r" :> "d2")]
    [] f = "F3" -> [has |-> TRUE, val |-> ("p" :> "d1")]
    [] f = "F4" -> [has |-> TRUE, val |-> ("p" :> "d2") @@ ("r" :> "d2")]
    [] f = "F5" -> [has |-> TRUE, val |-> ("r" :> "d2")]
    [] f = "G1" -> [has |-> TRUE, val |-> ("g" :> "d1")]
    [] f = "H1" -> [has |-> TRUE, val |-> ("h" :> "d1")]
    [] OTHER -> [has |-> FALSE, val |-> EmptyObj]

\* own FEATURE_META.featureProperties of a feature class (property decorator)
FeatOwnMeta(f) ==
  CASE f = "F2" -> [has |-> TRUE, val |-> ("r" :> "d2")]
    [] f = "F3" -> [has |-> TRUE, val |-> ("p" :> "d1")]
    [] OTHER -> [has |-> FALSE, val |-> EmptyObj]

\* own static styles of a feature class, as a list of style blocks
FeatOwnStyles(f) ==
  CASE f = "F1" -> [has |-> TRUE, val |-> <<"s1">>]
    [] f = "F2" -> [has |-> TRUE, val |-> <<"s2">>]
    [] f = "G1" -> [has |-> TRUE, val |-> <<"sg">>]
    [] OTHER -> [has |-> FALSE, val |-> <<>>]

\* inherited read featureCtor[LIT_FEATURE_MARKER]
RECURSIVE FeatMarker(_)
FeatMarker(f) ==
  IF f = "null" THEN FALSE
  ELSE IF FeatOwnMarker(f) THEN TRUE ELSE FeatMarker(FeatParent(f))

\* inherited read featureCtor.properties
RECURSIVE FeatProps(_)
FeatProps(f) ==
  IF f = "null" THEN EmptyObj
  ELSE IF FeatOwnProps(f).has THEN FeatOwnProps(f).val ELSE FeatProps(FeatParent(f))

\* getFeaturePropertyMetadata(ctor): inherited read of FEATURE_META
RECURSIVE getFeaturePropertyMetadata(_)
getFeaturePropertyMetadata(f) ==
  IF f = "null" THEN EmptyObj
  ELSE IF FeatOwnMeta(f).has THEN FeatOwnMeta(f).val
       ELSE getFeaturePropertyMetadata(FeatParent(f))

\* inherited read featureCtor.styles
RECURSIVE FeatStyles(_)
FeatStyles(f) ==
  IF f = "null" THEN <<>>
  ELSE IF FeatOwnStyles(f).has THEN FeatOwnStyles(f).val ELSE FeatStyles(FeatParent(f))

\* the chain of a feature class, LitFeature first
RECURSIVE FeatureChain(_)
FeatureChain(f) ==
  IF f = "null" \/ ~FeatMarker(f) THEN <<>>
  ELSE IF f = "LitFeature" THEN <<f>>
       ELSE Append(FeatureChain(FeatParent(f)), f)

\* Object.assign(target, source)
Assign(target, source) ==
  [k \in (DOMAIN target) \cup (DOMAIN source) |->
     IF k \in DOMAIN source THEN source[k] ELSE target[k]]

RECURSIVE StylesOfChain(_)
StylesOfChain(chain) ==
  IF chain = <<>> THEN <<>>
  ELSE FeatStyles(Head(chain)) \o StylesOfChain(Tail(chain))

collectFeatureStyles(f) == StylesOfChain(FeatureChain(f))

RECURSIVE PropsOfChain(_, _)
PropsOfChain(chain, acc) ==
  IF chain = <<>> THEN acc
  ELSE PropsOfChain(Tail(chain),
         Assign(Assign(acc, FeatProps(Head(chain))),
                getFeaturePropertyMetadata(Head(chain))))

collectFeatureProperties(f) == PropsOfChain(FeatureChain(f), EmptyObj)

\* ------------------------------------------------------------------------
\* Host classes and their declarations
\* ------------------------------------------------------------------------
DeclClasses == {"A", "B", "C"}

\* Object.getPrototypeOf(hostClass)
CtorParent(c) ==
  CASE c = "C" -> "B"
    [] c = "B" -> "A"
    [] c = "A" -> "LitCore"
    [] c = "LitCore" -> "LitElement"
    [] OTHER -> "null"

\* position of a declaring class in the chain
ClassIdx(c) == CASE c = "A" -> 1 [] c = "B" -> 2 [] c = "C" -> 3 [] OTHER -> 0

\* FeatureDefinition { class, config?, enabled? }; oid tells the definition
\* objects written into the same place at different times apart (0: written
\* in the class body)
Definition(cls, hasConfig, config, enabled) ==
  [class |-> cls, hasConfig |-> hasConfig, config |-> config, enabled |-> enabled,
   oid |-> 0]

\* FeatureConfigEntry | 'disable' | undefined
Undefined ==
  [kind |-> "undefined", hasConfig |-> FALSE, config |-> EmptyObj,
   hasProps |-> FALSE, props |-> EmptyObj]

Disable ==
  [kind |-> "disable", hasConfig |-> FALSE, config |-> EmptyObj,
   hasProps |-> FALSE, props |-> EmptyObj]

ConfigOnly(config) ==
  [kind |-> "entry", hasConfig |-> TRUE, config |-> config,
   hasProps |-> FALSE, props |-> EmptyObj]

PropsOnly(props) ==
  [kind |-> "entry", hasConfig |-> FALSE, config |-> EmptyObj,
   hasProps |-> TRUE, props |-> props]

VARIABLES
  decl,    \* per host class: own static provide / configure, own FEATURE_META,
           \* own static properties and styles (and the properties as the
           \* class body wrote them), Lit's own finalized mark, and whether
           \* the class is defined as a custom element
  cache,   \* per host class: own RESOLVED_CACHE
  folds,   \* per host class: how often its chain was folded
  ret,     \* the plan object returned by the latest resolveFeatures call,
           \* and whether the cache served it
  hosts,   \* per host class: the host instances constructed so far
  late,    \* number of decorators applied after the class bodies
  op,      \* the latest operation on a host's properties: its inputs, the
           \* host and the feature instance before it, and its effects
  race,    \* the latest writes of property p by the host and by feature F,
           \* up to the update pass that reports p, and the update
           \* requests feature F issued in them
  pending  \* the update requests issued so far and those not answered by an
           \* update pass yet, and the writes made from outside so far

vars == <<decl, cache, folds, ret, hosts, late, op, race, pending>>


\* own static [LIT_CORE_MARKER]
CoreOwnMarker(c) == c = "LitCore"

\* the classes a host class's prototype chain runs through
CtorClasses == DeclClasses \cup {"LitCore", "LitElement"}

\* what a class can say about the marker in its own static field
MarkVals == {"absent", "true", "false"}

\* the own markers as the library writes them: LitCore alone declares one
CoreMarks == [c \in CtorClasses |-> IF CoreOwnMarker(c) THEN "true" ELSE "absent"]

\* inherited read current[LIT_CORE_MARKER] under the own markers marks
RECURSIVE MarkerIn(_, _)
MarkerIn(marks, c) ==
  IF c = "null" THEN FALSE
  ELSE IF marks[c] # "absent" THEN marks[c] = "true" ELSE MarkerIn(marks, CtorParent(c))

\* inherited read current[LIT_CORE_MARKER]
CoreMarker(c) == MarkerIn(CoreMarks, c)

\* chain.push(current): the class goes to the leaf end
Push(chain, current) == Append(chain, current)

\* chain.unshift(current): the class goes to the root end
Unshift(chain, current) == <<current>> \o chain

\* while (current && current[LIT_CORE_MARKER]) { unshift; current = parent }
RECURSIVE WalkChain(_, _, _)
WalkChain(marks, current, chain) ==
  IF current = "null" \/ ~MarkerIn(marks, current) THEN chain
  ELSE WalkChain(marks, CtorParent(current), Unshift(chain, current))

\* getInheritanceChain(ctor) in a hierarchy with the own markers marks
InheritanceChainIn(marks, ctor) == WalkChain(marks, ctor, <<>>)

getInheritanceChain(c) == InheritanceChainIn(CoreMarks, c)

\* the class on the prototype chain of c whose own field answers the read
\* c.provide, c.configure or c[FEATURE_META]; "null" when the read is undefined
RECURSIVE StaticOwner(_, _)
StaticOwner(c, field) ==
  IF c \notin DeclClasses THEN "null"
  ELSE IF decl[c][field].has THEN c ELSE StaticOwner(CtorParent(c), field)

\* a provide object read from its owner: every definition keeps the identity
\* of the declaration object it comes from
WithOrigin(es, c, via) ==
  [i \in 1..Len(es) |->
     [name |-> es[i].name,
      val |-> [def |-> es[i].val,
               origin |-> [cls |-> c, via |-> via, oid |-> es[i].val.oid]]]]

NoOrigin == [cls |-> "null", via |-> "none", oid |-> 0]

\* current.provide || {}
staticProvides(current) ==
  LET o == StaticOwner(current, "provide")
  IN  IF o = "null" THEN <<>> ELSE WithOrigin(decl[o].provide.entries, o, "static")

\* current.configure || {}
staticConfigs(current) ==
  LET o == StaticOwner(current, "configure")
  IN  IF o = "null" THEN <<>> ELSE decl[o].configure.entries

\* current[FEATURE_META].provide
metaProvides(current) ==
  LET o == StaticOwner(current, "meta")
  IN  IF o = "null" THEN <<>> ELSE WithOrigin(decl[o].meta.provide, o, "meta")

\* current[FEATURE_META].configure
metaConfigs(current) ==
  LET o == StaticOwner(current, "meta")
  IN  IF o = "null" THEN <<>> ELSE decl[o].meta.configure

\* properties of the merged entry: a disable deletes the key, any other
\* value replaces it
mergedProps(eprops, nprops) ==
  LET removed == {q \in DOMAIN nprops : nprops[q] = "disable"}
      written == {q \in DOMAIN nprops : nprops[q] # "disable"}
  IN  [p \in ((DOMAIN eprops) \ removed) \cup written |->
         IF p \in DOMAIN nprops THEN nprops[p] ELSE eprops[p]]

\* an entry that replaces what was accumulated
replaceConfigEntries(existing, next) == next

mergeConfigEntries(existing, next) ==
  IF next.kind = "disable" THEN Disable
  ELSE IF existing.kind # "entry" THEN next
  ELSE [kind |-> "entry",
        hasConfig |-> TRUE,
        config |-> merge(existing.config, next.config),
        hasProps |-> TRUE,
        props |-> mergedProps(existing.props, next.props)]

\* forEach(([name, definition]) => provides.set(name, definition))
RECURSIVE SetAll(_, _)
SetAll(provides, es) ==
  IF es = <<>> THEN provides
  ELSE SetAll(MapSet(provides, Head(es).name, Head(es).val), Tail(es))

\* forEach(([name, config]) => configs.set(name, mergeConfigEntries(configs.get(name), config)))
RECURSIVE MergeAll(_, _)
MergeAll(configs, es) ==
  IF es = <<>> THEN configs
  ELSE LET name == Head(es).name
           existing == IF MapHas(configs, name) THEN MapGet(configs, name) ELSE Undefined
       IN  MergeAll(MapSet(configs, name, mergeConfigEntries(existing, Head(es).val)), Tail(es))

\* the body of chain.forEach for one class
ProcessClass(st, current) ==
  [provides |-> SetAll(SetAll(st.provides, staticProvides(current)), metaProvides(current)),
   configs |-> MergeAll(MergeAll(st.configs, staticConfigs(current)), metaConfigs(current))]

RECURSIVE FoldChain(_, _)
FoldChain(st, chain) ==
  IF chain = <<>> THEN st
  ELSE FoldChain(ProcessClass(st, Head(chain)), Tail(chain))

\* the provides and configs maps after the walk of ctor's chain
Collected(ctor) ==
  FoldChain([provides |-> <<>>, configs |-> <<>>], getInheritanceChain(ctor))

\* property overrides of the accumulated configure entry
ApplyOverrides(props, overrides) ==
  LET removed == {q \in DOMAIN overrides : overrides[q] = "disable"}
      written == {q \in DOMAIN overrides : overrides[q] # "disable"}
  IN  [p \in ((DOMAIN props) \ removed) \cup written |->
         IF p \in written THEN overrides[p] ELSE props[p]]

\* a skip test that looks at the configure entry only
SkippedIgnoringEnabled(featureConfig, definition) == featureConfig.kind = "disable"

\* a feature is skipped when configured as disable or defined with enabled false
Skipped(featureConfig, definition) ==
  featureConfig.kind = "disable" \/ definition.enabled = "false"

\* finalConfig and the declaration object it is (alias) when the definition's
\* own config object is returned unmerged
FinalConfig(featureConfig, d) ==
  IF featureConfig.kind = "entry"
  THEN [config |-> merge(d.def.config, featureConfig.config), alias |-> NoOrigin]
  ELSE IF d.def.hasConfig
       THEN [config |-> d.def.config, alias |-> d.origin]
       ELSE [config |-> EmptyObj, alias |-> NoOrigin]

\* what the build loop met for one provided name: the winning definition's
\* class and enabled flag, and whether the accumulated entry is disable
Met(name, d, featureConfig) ==
  [name |-> name, class |-> d.def.class, enabled |-> d.def.enabled,
   disable |-> featureConfig.kind = "disable"]

\* provides.forEach: build the resolved state (met: the iteration's history)
\* a lookup that answers with the first entry when the name has none
configsGetLoose(configs, name) ==
  IF MapHas(configs, name) THEN MapGet(configs, name)
  ELSE IF configs = <<>> THEN Undefined ELSE configs[1].val

\* configs.get(name)
configsGet(configs, name) ==
  IF MapHas(configs, name) THEN MapGet(configs, name) ELSE Undefined

RECURSIVE Build(_, _, _)
Build(provides, configs, acc) ==
  IF provides = <<>> THEN acc
  ELSE
    LET name == Head(provides).name
        d == Head(provides).val
        featureConfig == configsGet(configs, name)
    IN  IF Skipped(featureConfig, d.def)
        THEN Build(Tail(provides), configs,
               [acc EXCEPT !.met = Append(@, Met(name, d, featureConfig))])
        ELSE
          LET base == collectFeatureProperties(d.def.class)
              mergedProperties ==
                IF featureConfig.kind = "entry" /\ featureConfig.hasProps
                THEN ApplyOverrides(base, featureConfig.props) ELSE base
              fc == FinalConfig(featureConfig, d)
          IN  Build(Tail(provides), configs,
                [met |-> Append(acc.met, Met(name, d, featureConfig)),
                 properties |-> Assign(acc.properties, mergedProperties),
                 styles |-> acc.styles \o collectFeatureStyles(d.def.class),
                 features |-> MapSet(acc.features, name,
                                [class |-> d.def.class, config |-> fc.config, alias |-> fc.alias])])

NoPlan ==
  [has |-> FALSE, id |-> 0, met |-> <<>>, properties |-> EmptyObj, styles |-> <<>>,
   features |-> <<>>]

\* the resolved state computed for ctor (cache miss), as object number id
Resolved(ctor, id) ==
  LET st == Collected(ctor)
      r == Build(st.provides, st.configs,
                 [met |-> <<>>, properties |-> EmptyObj, styles |-> <<>>, features |-> <<>>])
  IN  [has |-> TRUE, id |-> id, met |-> r.met, properties |-> r.properties,
       styles |-> r.styles, features |-> r.features]

\* a cache check that never finds the plan
CacheNeverHit(ctor) == FALSE

\* a cache check that reads RESOLVED_CACHE through the prototype chain: the
\* plan of a class above answers too
RECURSIVE CacheHitInherited(_)
CacheHitInherited(ctor) ==
  IF ctor \notin DeclClasses THEN FALSE
  ELSE cache[ctor].has \/ CacheHitInherited(CtorParent(ctor))

\* Check cache first
CacheHit(ctor) == cache[ctor].has

\* resolveFeatures(ctor): the state change of one call
resolveFeatures(ctor) ==
  IF CacheHit(ctor)
  THEN /\ ret' = [cls |-> ctor, id |-> cache[ctor].id, hit |-> TRUE]
       /\ UNCHANGED <<cache, folds>>
  ELSE /\ folds[ctor] < MaxFolds
       /\ folds' = [folds EXCEPT ![ctor] = @ + 1]
       /\ cache' = [cache EXCEPT ![ctor] = Resolved(ctor, folds[ctor] + 1)]
       /\ ret' = [cls |-> ctor, id |-> folds[ctor] + 1, hit |-> FALSE]


\* ------------------------------------------------------------------------
\* The declarations written in the class hierarchy
\* ------------------------------------------------------------------------
\* what a static provide field or a provide decorator of class c declares
ProvidePayload(c, name, pk) ==
  LET i == ClassIdx(c)
  IN  CASE name = "G" -> Definition("G1", TRUE, ("x" :> Num(i)), "unset")
        [] name = "H" -> Definition("H1", FALSE, EmptyObj, "unset")
        [] pk = "plain" ->
             Definition("F1", TRUE, ("x" :> Num(i)) @@ ("nested" :> Obj("a" :> Num(i))), "unset")
        [] pk = "sub" -> Definition("F2", FALSE, EmptyObj, "unset")
        [] pk = "mixed" -> Definition("F4", FALSE, EmptyObj, "unset")
        [] pk = "narrow" -> Definition("F5", FALSE, EmptyObj, "unset")
        [] OTHER -> Definition("F1", TRUE, ("x" :> Num(i)), "false")

\* what a static configure field or a configure decorator of class c declares
ConfigurePayload(c, name, pk) ==
  LET i == ClassIdx(c)
  IN  CASE pk = "disable" -> Disable
        [] pk = "x" -> ConfigOnly("x" :> Num(i))
        [] pk = "nest" -> ConfigOnly("nested" :> Obj("b" :> Num(i)))
        [] pk = "pdis" -> PropsOnly("p" :> "disable")
        [] OTHER -> PropsOnly("p" :> "d3")

\* the classes in definition order, and the two ways to declare
ClassSeq == <<"A", "B", "C">>

ViaSeq == <<"static", "meta">>

\* what one declaration can say
KindSeq ==
  <<[kind |-> "provide", name |-> "F", pk |-> "plain"],
    [kind |-> "provide", name |-> "F", pk |-> "sub"],
    [kind |-> "provide", name |-> "F", pk |-> "off"],
    [kind |-> "configure", name |-> "F", pk |-> "disable"],
    [kind |-> "configure", name |-> "F", pk |-> "x"],
    [kind |-> "configure", name |-> "F", pk |-> "nest"],
    [kind |-> "configure", name |-> "F", pk |-> "pdis"],
    [kind |-> "configure", name |-> "F", pk |-> "pset"],
    [kind |-> "provide", name |-> "G", pk |-> "plain"],
    [kind |-> "configure", name |-> "G", pk |-> "disable"]>>

NumDecls == Len(ClassSeq) * Len(ViaSeq) * Len(KindSeq)

\* every single declaration that can be written, in class definition order
Universe(i) ==
  LET k == KindSeq[((i - 1) % Len(KindSeq)) + 1]
      v == ViaSeq[(((i - 1) \div Len(KindSeq)) % Len(ViaSeq)) + 1]
      c == ClassSeq[((i - 1) \div (Len(KindSeq) * Len(ViaSeq))) + 1]
  IN  [cls |-> c, via |-> v, kind |-> k.kind, name |-> k.name, pk |-> k.pk]

SameSlot(d, e) ==
  d.cls = e.cls /\ d.via = e.via /\ d.kind = e.kind /\ d.name = e.name

\* the choices of at most k declarations, as increasing index sequences
RECURSIVE DeclChoices(_)
DeclChoices(k) ==
  IF k = 0 THEN {<<>>}
  ELSE LET prev == DeclChoices(k - 1)
       IN  prev \cup UNION {
             {Append(s, j) : j \in (IF s = <<>> THEN 1 ELSE s[Len(s)] + 1)..NumDecls}
             : s \in {t \in prev : Len(t) = k - 1}}

\* the declarations of a choice
DeclSet(s) == {Universe(s[i]) : i \in 1..Len(s)}

\* the hierarchies considered: the root class A only provides, G is provided
\* by the root only, and the classes below provide F again, configure F or
\* disable G
Writable(d) ==
  IF d.cls = "A" THEN d.kind = "provide"
  ELSE ~(d.kind = "provide" /\ d.name = "G")

\* one declaration per class, way, kind and name
OnePerSlot(S) == \A d \in S : \A e \in S : SameSlot(d, e) => d = e

\* the entries of one declaration object, in the order of Names
EntriesOf(S, c, via, kind) ==
  LET Has(n) == \E d \in S : d.cls = c /\ d.via = via /\ d.kind = kind /\ d.name = n
      Item(n) == CHOOSE d \in S : d.cls = c /\ d.via = via /\ d.kind = kind /\ d.name = n
      Val(n) == IF kind = "provide" THEN ProvidePayload(c, n, Item(n).pk)
                ELSE ConfigurePayload(c, n, Item(n).pk)
      E(n) == IF Has(n) THEN <<[name |-> n, val |-> Val(n)]>> ELSE <<>>
  IN  E(Names[1]) \o E(Names[2]) \o E(Names[3])

\* the class hierarchy after class definition
DeclOf(S) ==
  [c \in DeclClasses |->
     [provide |-> [has |-> \E d \in S : d.cls = c /\ d.via = "static" /\ d.kind = "provide",
                   entries |-> EntriesOf(S, c, "static", "provide")],
      configure |-> [has |-> \E d \in S : d.cls = c /\ d.via = "static" /\ d.kind = "configure",
                     entries |-> EntriesOf(S, c, "static", "configure")],
      meta |-> [has |-> \E d \in S : d.cls = c /\ d.via = "meta",
                provide |-> EntriesOf(S, c, "meta", "provide"),
                configure |-> EntriesOf(S, c, "meta", "configure")],
      properties |-> [has |-> FALSE, val |-> EmptyObj],
      styles |-> [has |-> FALSE, val |-> <<>>],
      written |-> EmptyObj,
      finalized |-> FALSE,
      defined |-> FALSE]]

\* the root class A provides F through a static field
BaseDecls ==
  {[cls |-> "A", via |-> "static", kind |-> "provide", name |-> "F", pk |-> "plain"]}

\* no operation on a host's properties yet
NoOp ==
  [kind |-> "none", cls |-> "null", feature |-> "", prop |-> "", value |-> "",
   changed |-> {}, host |-> EmptyObj, instances |-> <<>>, events |-> <<>>,
   args |-> <<>>, throws |-> {}, calls |-> <<>>, thrown |-> "", base |-> <<>>]

NoRace == [seq |-> <<>>, requests |-> 0]

\* no update request issued, no write made
NoPending == [requests |-> 0, issued |-> 0, writes |-> 0]

\* nothing is resolved and no host instance exists
Fresh ==
  /\ cache = [c \in DeclClasses |-> NoPlan]
  /\ folds = [c \in DeclClasses |-> 0]
  /\ ret = [cls |-> "null", id |-> 0, hit |-> FALSE]
  /\ hosts = [c \in DeclClasses |-> <<>>]
  /\ late = 0
  /\ op = NoOp
  /\ race = NoRace
  /\ pending = NoPending

Init ==
  /\ \E s \in DeclChoices(MaxDecls) :
       /\ \A d \in DeclSet(s) : Writable(d) /\ d \notin BaseDecls
       /\ OnePerSlot(BaseDecls \cup DeclSet(s))
       /\ decl = DeclOf(BaseDecls \cup DeclSet(s))
  /\ Fresh

\* a direct call resolveFeatures(ctor), as made by LitCore.register
Register(ctor) ==
  /\ resolveFeatures(ctor)
  /\ UNCHANGED <<decl, hosts, late, op, race, pending>>

Next == \E ctor \in DeclClasses : Register(ctor)

Spec == Init /\ [][Next]_vars

\* ------------------------------------------------------------------------
\* Runtime: host instances, their feature instances, decorators applied
\* after the class bodies, and features that write into their config
\* ------------------------------------------------------------------------
\* number of host instances constructed
MaxHosts == 1
\* number of decorators applied after the class bodies
MaxLate == 1

\* the values a feature assigns to this.config.x
MutVals == {9}

\* getOrCreateFeatureMeta(ctor): the class's own store, created when missing
getOrCreateFeatureMeta(meta) ==
  IF meta.has THEN meta ELSE [has |-> TRUE, provide |-> <<>>, configure |-> <<>>]

\* a store looked up through the prototype chain: the nearest class at or
\* above c that has one, c itself when there is none
InheritedMetaOwner(c) ==
  IF StaticOwner(c, "meta") = "null" THEN c ELSE StaticOwner(c, "meta")

\* the class whose store getOrCreateFeatureMeta(c) hands out: the hasOwnProperty
\* test makes it c's own
MetaOwner(c) == c

\* provide(featureName, definition)(constructor), on the class's own store
provideDecorator(meta, featureName, definition) ==
  [getOrCreateFeatureMeta(meta) EXCEPT !.provide = MapSet(@, featureName, definition)]

\* configure(featureName, options)(constructor), on the class's own store
configureDecorator(meta, featureName, options) ==
  [getOrCreateFeatureMeta(meta) EXCEPT !.configure = MapSet(@, featureName, options)]

\* the decorators applied late
LateKinds ==
  {[kind |-> "configure", name |-> "F", pk |-> "disable"],
   [kind |-> "provide", name |-> "F", pk |-> "plain"]}

\* the class hierarchy after decorator k ran on class c
Decorated(c, k) ==
  [decl EXCEPT ![MetaOwner(c)].meta =
     IF k.kind = "provide"
     THEN provideDecorator(@, k.name,
            [ProvidePayload(c, k.name, k.pk) EXCEPT !.oid = late + 1])
     ELSE configureDecorator(@, k.name, ConfigurePayload(c, k.name, k.pk))]

\* a decorator applied to class c after its body, at any later time
Decorate(c, k) ==
  /\ late < MaxLate
  /\ late' = late + 1
  /\ decl' = Decorated(c, k)
  /\ UNCHANGED <<cache, folds, ret, hosts, op, race, pending>>

\* a config object reference held by a feature instance: the object stored
\* as cache[cls].features[name].config
ConfigRef(K, name) == [cls |-> K, name |-> name]

\* the property values of the model; "undefined" is JavaScript's undefined
Vals == {"undefined", "small", "large"}

\* one observable effect on the host or a step of the manager: e is
\* "construct", "suspend", "attach", "resume" (of feature by), "set" (a
\* write of val to the host's property prop) or "request" (a call of
\* host.requestUpdate(prop, val), val the old value; by is "manager" for
\* the manager's own call, which has no arguments)
Ev(e, by, prop, val) == [e |-> e, by |-> by, prop |-> prop, val |-> val]

\* the defaults a feature class's own field initialisers assign
FeatOwnDefaults(f) ==
  CASE f = "F1" -> <<[prop |-> "p", val |-> "small"]>>
    [] f = "G1" -> <<[prop |-> "g", val |-> "small"]>>
    [] f = "H1" -> <<[prop |-> "h", val |-> "small"]>>
    [] OTHER -> <<>>

\* the assignments the constructors of a feature class run after
\* LitFeature's constructor, base class first
RECURSIVE FeatCtorWrites(_)
FeatCtorWrites(f) ==
  IF f = "null" THEN <<>> ELSE FeatCtorWrites(FeatParent(f)) \o FeatOwnDefaults(f)

\* new LitFeature(host, config): the instance keeps the object it is given,
\* declares the names of its class's properties field, and starts with an
\* empty value map and update requests not suspended
LitFeature(class, config) ==
  [class |-> class, config |-> config, suspended |-> FALSE,
   declared |-> DOMAIN FeatProps(class), key |-> "", internal |-> EmptyObj]

\* hostRecord[propertyName]
HostValue(h, propertyName) ==
  IF propertyName \in DOMAIN h.values THEN h.values[propertyName] ELSE "undefined"

\* getInternalValue(propertyName): Map.get
getInternalValue(inst, propertyName) ==
  IF propertyName \in DOMAIN inst.internal THEN inst.internal[propertyName]
  ELSE "undefined"

\* setInternalValue(propertyName, value): Map.set
setInternalValue(inst, propertyName, value) ==
  [inst EXCEPT !.internal = Assign(@, propertyName :> value)]

\* a guard on the feature's own value that never holds
InternalNeverSame(internalValue, newValue) == FALSE

\* a guard on the host's value that never holds
HostNeverSame(oldValue, newValue) == FALSE

\* a setter that never calls host.requestUpdate
RequestsNever(inst) == FALSE

\* a setter that calls host.requestUpdate whatever the suspension
RequestsAlways(inst) == TRUE

\* the guard of the setter on the feature's own value
SameAsInternal(internalValue, newValue) == internalValue = newValue

\* the guard of the setter on the host's value
SameAsHost(oldValue, newValue) == oldValue = newValue

\* the condition under which the setter calls host.requestUpdate
RequestsUpdate(inst) == ~inst.suspended

\* the set() of the accessor _createPropertyObserver installs, on the pair
\* s = [h: the host, inst: the feature instance]; by names the feature
createPropertyObserverSet(s, by, propertyName, newValue) ==
  LET oldValue == HostValue(s.h, propertyName)
      internalValue == getInternalValue(s.inst, propertyName)
  IN  IF SameAsInternal(internalValue, newValue) THEN s
      ELSE IF SameAsHost(oldValue, newValue)
           THEN [s EXCEPT !.inst = setInternalValue(@, propertyName, newValue)]
           ELSE [h |-> [s.h EXCEPT
                          !.values = Assign(@, propertyName :> newValue),
                          !.log = @ \o <<Ev("set", by, propertyName, newValue)>> \o
                                  (IF RequestsUpdate(s.inst)
                                   THEN <<Ev("request", by, propertyName, oldValue)>>
                                   ELSE <<>>)],
                 inst |-> setInternalValue(s.inst, propertyName, newValue)]

\* the field initialisers of the feature class, through the accessors; a
\* name without an accessor becomes a plain field of the instance
RECURSIVE RunCtorWrites(_, _, _)
RunCtorWrites(s, by, writes) ==
  IF writes = <<>> THEN s
  ELSE RunCtorWrites(
         IF Head(writes).prop \in s.inst.declared
         THEN createPropertyObserverSet(s, by, Head(writes).prop, Head(writes).val)
         ELSE s,
         by, Tail(writes))

\* new feature.class(this.host, feature.config)
NewFeature(h, featureName, feature) ==
  RunCtorWrites(
    [h |-> [h EXCEPT !.log = Append(@, Ev("construct", featureName, "", ""))],
     inst |-> LitFeature(feature.class, ConfigRef(h.cls, featureName))],
    featureName, FeatCtorWrites(feature.class))

\* the host instance when LitElement's constructor returns
NewHost(ctor) ==
  [cls |-> ctor, instances |-> <<>>, fields |-> {}, warnings |-> 0,
   values |-> EmptyObj, log |-> <<>>, hasUpdated |-> FALSE,
   calls |-> <<>>, throws |-> {}, thrown |-> "", born |-> EmptyObj, base |-> <<>>,
   supplied |-> EmptyObj]

\* the host instance when own holds the fields it already has by then;
\* born keeps them as they were, supplied the values written from outside
NewHostWith(ctor, own) ==
  [NewHost(ctor) EXCEPT !.values = own, !.fields = DOMAIN own, !.born = own,
                        !.supplied = own]

\* the value of the host field a feature instance is attached under
InstanceRef(featureName) == "instance " \o featureName

\* an attach that always uses the feature's name
AttachKeyPlain(h, featureName) == featureName

\* the name a feature instance is attached under
AttachKey(h, featureName) ==
  IF featureName \in h.fields THEN "_" \o featureName ELSE featureName

\* Batch 1: create each instance, suspend it, record it and attach it
RECURSIVE Instantiate(_, _)
Instantiate(h, features) ==
  IF features = <<>> THEN h
  ELSE
    LET featureName == Head(features).name
        feature == Head(features).val
        s == NewFeature(h, featureName, feature)
        key == AttachKey(s.h, featureName)
        featureInstance == [s.inst EXCEPT !.suspended = TRUE, !.key = key]
    IN  Instantiate(
          [s.h EXCEPT !.instances = MapSet(@, featureName, featureInstance),
                      !.warnings = IF key = featureName THEN @ ELSE @ + 1,
                      !.fields = @ \cup {key},
                      !.values = Assign(@, key :> InstanceRef(featureName)),
                      !.log = @ \o <<Ev("suspend", featureName, "", "")>>
                                \o (IF key = featureName THEN <<>>
                                    ELSE <<Ev("warn", featureName, "", "")>>)
                                \o <<Ev("attach", featureName, "", "")>>],
          Tail(features))

\* a batch 2 that resumes nothing
RequestOnly(h) == [h EXCEPT !.log = Append(@, Ev("request", "manager", "", ""))]

\* Batch 2: resume every instance, then one requestUpdate on the host
ResumeAll(h) ==
  [h EXCEPT !.instances =
              [i \in 1..Len(@) |-> [@[i] EXCEPT !.val.suspended = FALSE]],
            !.log = @ \o [i \in 1..Len(h.instances) |->
                            Ev("resume", h.instances[i].name, "", "")]
                      \o <<Ev("request", "manager", "", "")>>]

\* FeatureManager._initializeFeatures(resolved)
initializeFeatures(h, resolved) == ResumeAll(Instantiate(h, resolved.features))

\* the host h when the LitCore constructor returns: this.featureManager holds
\* the manager, whose constructor initialized the features of the plan
ConstructedFrom(h, resolved) ==
  [initializeFeatures(h, resolved) EXCEPT !.fields = @ \cup {"featureManager"}]

Constructed(ctor, resolved) == ConstructedFrom(NewHost(ctor), resolved)

NumHosts == Len(hosts["A"]) + Len(hosts["B"]) + Len(hosts["C"])

\* new ctor(): the LitCore constructor builds the FeatureManager, which
\* resolves the class and initializes the features
ConstructHost(ctor) ==
  /\ NumHosts < MaxHosts
  /\ resolveFeatures(ctor)
  /\ hosts' = [hosts EXCEPT ![ctor] = Append(@, Constructed(ctor, cache'[ctor]))]
  /\ UNCHANGED <<decl, late, op, race, pending>>

\* new ctor() on an instance that has the own fields of own when
\* LitElement's constructor returns
ConstructHostWith(ctor, own) ==
  /\ NumHosts < MaxHosts
  /\ resolveFeatures(ctor)
  /\ hosts' = [hosts EXCEPT ![ctor] =
                 Append(@, ConstructedFrom(NewHostWith(ctor, own), cache'[ctor]))]
  /\ UNCHANGED <<decl, late, op, race, pending>>

\* the definitions of a provide map whose object is o receive config
PokeDefs(es, c, via, name, o, config) ==
  [i \in 1..Len(es) |->
     IF es[i].name = name /\ o = [cls |-> c, via |-> via, oid |-> es[i].val.oid]
     THEN [es[i] EXCEPT !.val.config = config, !.val.hasConfig = TRUE]
     ELSE es[i]]

\* the feature instance featureName of the i-th host of class c assigns
\* this.config.x = v: the object is the one the plan holds, and when the
\* plan took it unmerged from a definition, the one the declaration holds
MutateConfig(c, i, featureName, v) ==
  /\ i \in 1..Len(hosts[c])
  /\ MapHas(hosts[c][i].instances, featureName)
  /\ LET ref == MapGet(hosts[c][i].instances, featureName).config
         held == MapGet(cache[ref.cls].features, ref.name)
         config == Assign(held.config, "x" :> Num(v))
         Same(K, e) ==
           \/ K = ref.cls /\ e.name = ref.name
           \/ held.alias # NoOrigin /\ e.name = ref.name /\ e.val.alias = held.alias
     IN  /\ cache' = [K \in DeclClasses |->
                        [cache[K] EXCEPT !.features =
                           [j \in 1..Len(@) |->
                              IF Same(K, @[j]) THEN [@[j] EXCEPT !.val.config = config]
                              ELSE @[j]]]]
         /\ decl' = [K \in DeclClasses |->
                       [decl[K] EXCEPT
                          !.provide.entries =
                             PokeDefs(@, K, "static", ref.name, held.alias, config),
                          !.meta.provide =
                             PokeDefs(@, K, "meta", ref.name, held.alias, config)]]
  /\ UNCHANGED <<folds, ret, hosts, late, op, race, pending>>

\* the class hierarchies the runtime is exercised on
RuntimeHierarchies ==
  {{[cls |-> "A", via |-> "static", kind |-> "provide", name |-> "G", pk |-> "plain"],
    [cls |-> "B", via |-> "static", kind |-> "configure", name |-> "F", pk |-> "x"],
    [cls |-> "C", via |-> "static", kind |-> "configure", name |-> "G", pk |-> "disable"]},
   {[cls |-> "A", via |-> "meta", kind |-> "provide", name |-> "G", pk |-> "plain"],
    [cls |-> "A", via |-> "meta", kind |-> "provide", name |-> "H", pk |-> "plain"],
    [cls |-> "B", via |-> "meta", kind |-> "provide", name |-> "F", pk |-> "off"]},
   {[cls |-> "A", via |-> "static", kind |-> "provide", name |-> "G", pk |-> "plain"],
    [cls |-> "B", via |-> "meta", kind |-> "configure", name |-> "F", pk |-> "disable"],
    [cls |-> "C", via |-> "static", kind |-> "provide", name |-> "F", pk |-> "sub"]}}

InitRuntime ==
  /\ \E S \in RuntimeHierarchies : decl = DeclOf(BaseDecls \cup S)
  /\ Fresh

NextRuntime ==
  \/ \E ctor \in DeclClasses : Register(ctor)
  \/ \E ctor \in DeclClasses : ConstructHost(ctor)
  \/ \E c \in DeclClasses : \E k \in LateKinds : Decorate(c, k)
  \/ \E c \in DeclClasses : \E i \in 1..MaxHosts : \E n \in {"F", "G"} : \E v \in MutVals :
       MutateConfig(c, i, n, v)

SpecRuntime == InitRuntime /\ [][NextRuntime]_vars


\* ------------------------------------------------------------------------
\* Property synchronisation between one host and its feature instances
\* ------------------------------------------------------------------------
\* the property names the host's code writes and update passes report
SyncProps == {"p", "q"}

\* the order in which an instance visits its declared properties
PropOrder == <<"p", "q", "r", "g", "h">>

\* the update requests among events
Requests(events) == SelectSeq(events, LAMBDA x : x.e = "request")

\* the host writes among events
Sets(events) == SelectSeq(events, LAMBDA x : x.e = "set")

\* the record of an operation that took host h to h2
OpOf(kind, h, feature, prop, value, changed, h2) ==
  [kind |-> kind, cls |-> h.cls, feature |-> feature, prop |-> prop, value |-> value,
   changed |-> changed, host |-> h.values, instances |-> h.instances,
   events |-> SubSeq(h2.log, Len(h.log) + 1, Len(h2.log)),
   args |-> <<>>, throws |-> h2.throws, calls |-> h2.calls, thrown |-> h2.thrown,
   base |-> h2.base]

\* the host keeps the log of its construction; later effects are in op
Kept(h, h2) ==
  [h2 EXCEPT !.log = h.log, !.calls = <<>>, !.throws = {}, !.thrown = "", !.base = <<>>]

\* the writes of p by the host (H) and by feature F (F), in either order,
\* then the update pass that reports p (U)
RaceStep(kind, requests) ==
  CASE kind = "H" ->
         IF race.seq = <<"F">> THEN [seq |-> <<"F", "H">>, requests |-> race.requests]
         ELSE [seq |-> <<"H">>, requests |-> 0]
    [] kind = "F" ->
         IF race.seq = <<"H">>
         THEN [seq |-> <<"H", "F">>, requests |-> race.requests + requests]
         ELSE [seq |-> <<"F">>, requests |-> requests]
    [] OTHER ->
         IF Len(race.seq) = 2 THEN [race EXCEPT !.seq = Append(@, "U")] ELSE NoRace

\* feature[propertyName] = newValue, on the featureName instance of the
\* i-th host of class c
FeatureWrite(c, i, featureName, propertyName, newValue) ==
  /\ i \in 1..Len(hosts[c])
  /\ MapHas(hosts[c][i].instances, featureName)
  /\ propertyName \in MapGet(hosts[c][i].instances, featureName).declared
  /\ LET h == hosts[c][i]
         s == createPropertyObserverSet(
                [h |-> h, inst |-> MapGet(h.instances, featureName)],
                featureName, propertyName, newValue)
         h2 == [s.h EXCEPT !.instances = MapSet(@, featureName, s.inst)]
         o == OpOf("set", h, featureName, propertyName, newValue, {}, h2)
     IN  /\ hosts' = [hosts EXCEPT ![c][i] = Kept(h, h2)]
         /\ op' = o
         /\ race' = IF featureName = "F" /\ propertyName = "p"
                    THEN RaceStep("F", Len(Requests(o.events))) ELSE race
  /\ UNCHANGED <<decl, cache, folds, ret, late>>

\* host[propertyName] = newValue, by the host's own code or its users
HostWrite(c, i, propertyName, newValue) ==
  /\ i \in 1..Len(hosts[c])
  /\ LET h == hosts[c][i]
         h2 == [h EXCEPT !.values = Assign(@, propertyName :> newValue)]
     IN  /\ hosts' = [hosts EXCEPT ![c][i] = h2]
         /\ op' = OpOf("hostWrite", h, "", propertyName, newValue, {}, h2)
  /\ race' = IF propertyName = "p" THEN RaceStep("H", 0) ELSE race
  /\ UNCHANGED <<decl, cache, folds, ret, late>>

\* feature._suspendUpdateRequests()
suspendUpdateRequests(c, i, featureName) ==
  /\ i \in 1..Len(hosts[c])
  /\ MapHas(hosts[c][i].instances, featureName)
  /\ LET h == hosts[c][i]
         h2 == [h EXCEPT !.instances =
                  MapSet(@, featureName,
                         [MapGet(h.instances, featureName) EXCEPT !.suspended = TRUE])]
     IN  /\ hosts' = [hosts EXCEPT ![c][i] = h2]
         /\ op' = OpOf("suspend", h, featureName, "", "", {}, h2)
  /\ UNCHANGED <<decl, cache, folds, ret, late, race, pending>>

\* feature._resumeUpdateRequests()
resumeUpdateRequests(c, i, featureName) ==
  /\ i \in 1..Len(hosts[c])
  /\ MapHas(hosts[c][i].instances, featureName)
  /\ LET h == hosts[c][i]
         h2 == [h EXCEPT !.instances =
                  MapSet(@, featureName,
                         [MapGet(h.instances, featureName) EXCEPT !.suspended = FALSE])]
     IN  /\ hosts' = [hosts EXCEPT ![c][i] = h2]
         /\ op' = OpOf("resume", h, featureName, "", "", {}, h2)
  /\ UNCHANGED <<decl, cache, folds, ret, late, race, pending>>

\* a reconciliation that does nothing
ReconcileNothing(s, by, propertyName) == s

\* the first reconciliation of one declared property
ReconcileWith(s, by, propertyName) ==
  LET hostValue == HostValue(s.h, propertyName)
      internalValue == getInternalValue(s.inst, propertyName)
  IN  IF hostValue # "undefined"
      THEN (IF hostValue # internalValue
            THEN createPropertyObserverSet(s, by, propertyName, hostValue)
            ELSE [s EXCEPT !.inst = setInternalValue(@, propertyName, hostValue)])
      ELSE IF internalValue # "undefined"
           THEN createPropertyObserverSet(s, by, propertyName, internalValue)
           ELSE [s EXCEPT !.inst = setInternalValue(@, propertyName, hostValue)]

\* LitFeature.firstUpdated: every declared property, from the k-th of
\* PropOrder on
RECURSIVE firstUpdated(_, _, _)
firstUpdated(s, by, k) ==
  IF k > Len(PropOrder) THEN s
  ELSE firstUpdated(
         IF PropOrder[k] \in s.inst.declared THEN ReconcileWith(s, by, PropOrder[k]) ELSE s,
         by, k + 1)

\* an updated that copies every declared property
CopiedDeclared(inst, changedProperties) == inst.declared \cup changedProperties

\* an updated that copies nothing
CopiedNone(inst, changedProperties) == {}

\* the names of changedProperties whose value updated copies from the host
Copied(inst, changedProperties) == changedProperties

\* an updated that asks the host for another update after copying
updatedRequesting(s, changedProperties) ==
  [s EXCEPT !.inst.internal =
              Assign(@, [propertyName \in Copied(s.inst, changedProperties) |->
                           HostValue(s.h, propertyName)]),
            !.h.log = Append(@, Ev("request", "", "", ""))]

\* LitFeature.updated(changedProperties)
updated(s, changedProperties) ==
  [s EXCEPT !.inst.internal =
     Assign(@, [propertyName \in Copied(s.inst, changedProperties) |->
                  HostValue(s.h, propertyName)])]

\* the lifecycle hooks a feature class defines itself
FeatOwnHooks(f) ==
  CASE f = "LitFeature" -> {"hostConnected", "hostDisconnected", "firstUpdated", "updated"}
    [] f = "F1" -> {"connectedCallback", "disconnectedCallback"}
    [] f = "G1" -> {"beforeConnectedCallback", "connectedCallback", "attributeChangedCallback",
                    "beforeDisconnectedCallback", "disconnectedCallback",
                    "beforeFirstUpdated", "beforeUpdated"}
    [] f = "H1" -> {"connectedCallback", "afterConnectedCallback", "attributeChangedCallback",
                    "afterDisconnectedCallback", "afterFirstUpdated", "afterUpdated"}
    [] OTHER -> {}

\* typeof feature[methodName] === 'function', read through the prototypes
RECURSIVE Defines(_, _)
Defines(f, methodName) ==
  IF f = "null" THEN FALSE
  ELSE methodName \in FeatOwnHooks(f) \/ Defines(FeatParent(f), methodName)

\* a dispatch that visits the instances last to first
InstanceAtReversed(h, k) == h.instances[Len(h.instances) + 1 - k]

\* the k-th instance _featureInstances.forEach visits
InstanceAt(h, k) == h.instances[k]

\* a hook that threw is never seen
ThrewNever(h) == FALSE

\* a hook has thrown: the exception leaves forEach and the handler
Threw(h) == h.thrown # ""

\* FeatureManager.processLifecycle(methodName, ...args), from the k-th
\* instance on; h.throws holds the <<feature, hook>> pairs that throw
RECURSIVE processLifecycle(_, _, _, _)
processLifecycle(h, methodName, args, k) ==
  IF k > Len(h.instances) \/ Threw(h) THEN h
  ELSE
    LET featureName == InstanceAt(h, k).name
        inst == InstanceAt(h, k).val
        called == [h EXCEPT !.calls =
                     Append(@, [by |-> featureName, method |-> methodName, args |-> args])]
        s0 == [h |-> called, inst |-> inst]
        s == CASE methodName = "firstUpdated" -> firstUpdated(s0, featureName, 1)
               [] methodName = "updated" -> updated(s0, args)
               [] OTHER -> s0
    IN  IF ~Defines(inst.class, methodName)
        THEN processLifecycle(h, methodName, args, k + 1)
        ELSE IF <<featureName, methodName>> \in h.throws
             THEN [called EXCEPT !.thrown = featureName]
             ELSE processLifecycle(
                    [s.h EXCEPT !.instances = MapSet(@, featureName, s.inst)],
                    methodName, args, k + 1)

\* super.methodName(...): the step of the host's base class, reached unless
\* a hook has thrown; it is kept with the number of hook calls made before it
baseStep(h, methodName) ==
  IF Threw(h) THEN h
  ELSE [h EXCEPT !.base = Append(@, [method |-> methodName, at |-> Len(h.calls)])]

\* a callback that runs the base class's step before any hook
Dispatch3BaseFirst(h, Before, methodName, After, args) ==
  processLifecycle(
    processLifecycle(processLifecycle(baseStep(h, methodName), Before, args, 1),
                     methodName, args, 1),
    After, args, 1)

\* the body of the LitCore callback named methodName: the before hooks, the
\* base class's step, the main hooks, the after hooks
Dispatch3(h, Before, methodName, After, args) ==
  processLifecycle(
    processLifecycle(baseStep(processLifecycle(h, Before, args, 1), methodName),
                     methodName, args, 1),
    After, args, 1)

\* the body of LitCore.disconnectedCallback: the before hooks, the main
\* hooks, the base class's step, the after hooks
DispatchDisconnect(h) ==
  processLifecycle(
    baseStep(processLifecycle(processLifecycle(h, "beforeDisconnectedCallback", <<>>, 1),
                              "disconnectedCallback", <<>>, 1),
             "disconnectedCallback"),
    "afterDisconnectedCallback", <<>>, 1)

\* LitCore.firstUpdated(changedProperties): the first update pass of the host
FirstUpdated(c, i, changedProperties) ==
  /\ i \in 1..Len(hosts[c])
  /\ ~hosts[c][i].hasUpdated
  /\ LET h == hosts[c][i]
         h2 == [Dispatch3(h, "beforeFirstUpdated", "firstUpdated", "afterFirstUpdated",
                          changedProperties)
                  EXCEPT !.hasUpdated = TRUE]
     IN  /\ hosts' = [hosts EXCEPT ![c][i] = Kept(h, h2)]
         /\ op' = OpOf("firstUpdated", h, "", "", "", changedProperties, h2)
  /\ race' = NoRace
  /\ UNCHANGED <<decl, cache, folds, ret, late>>

\* LitCore.updated(changedProperties): an update pass of the host
Updated(c, i, changedProperties) ==
  /\ i \in 1..Len(hosts[c])
  /\ hosts[c][i].hasUpdated
  /\ LET h == hosts[c][i]
         h2 == Dispatch3(h, "beforeUpdated", "updated", "afterUpdated", changedProperties)
     IN  /\ hosts' = [hosts EXCEPT ![c][i] = Kept(h, h2)]
         /\ op' = OpOf("updated", h, "", "", "", changedProperties, h2)
  /\ race' = IF "p" \in changedProperties THEN RaceStep("U", 0) ELSE race
  /\ UNCHANGED <<decl, cache, folds, ret, late>>

\* one host of the root class has been constructed
InitSync ==
  /\ decl = DeclOf(BaseDecls)
  /\ cache = [c \in DeclClasses |-> IF c = "A" THEN Resolved("A", 1) ELSE NoPlan]
  /\ folds = [c \in DeclClasses |-> IF c = "A" THEN 1 ELSE 0]
  /\ ret = [cls |-> "A", id |-> 1, hit |-> FALSE]
  /\ hosts = [c \in DeclClasses |->
                IF c = "A" THEN <<Constructed("A", Resolved("A", 1))>> ELSE <<>>]
  /\ late = 0
  /\ op = NoOp
  /\ race = NoRace
  /\ pending = NoPending

\* the operations on the host, at any time and in any number: the update
\* requests are not followed up here
NextSync ==
  \/ \E c \in DeclClasses : \E n \in {"F"} : \E p \in SyncProps : \E v \in Vals :
       FeatureWrite(c, 1, n, p, v) /\ UNCHANGED pending
  \/ \E c \in DeclClasses : \E p \in SyncProps : \E v \in Vals :
       HostWrite(c, 1, p, v) /\ UNCHANGED pending
  \/ \E c \in DeclClasses : suspendUpdateRequests(c, 1, "F")
  \/ \E c \in DeclClasses : resumeUpdateRequests(c, 1, "F")
  \/ \E c \in DeclClasses : \E ch \in SUBSET SyncProps :
       FirstUpdated(c, 1, ch) /\ UNCHANGED pending
  \/ \E c \in DeclClasses : \E ch \in SUBSET SyncProps :
       Updated(c, 1, ch) /\ UNCHANGED pending

SpecSync == InitSync /\ [][NextSync]_vars


\* ------------------------------------------------------------------------
\* Lifecycle dispatch: the LitCore callbacks and hooks that throw
\* ------------------------------------------------------------------------
\* the own fields a host instance may have before its features are attached
OwnChoices == {EmptyObj, "G" :> "large"}

HookNames ==
  {"beforeConnectedCallback", "connectedCallback", "afterConnectedCallback",
   "attributeChangedCallback"}

\* which hook throws in one callback: none, or one hook of one feature
ThrowChoices == {{}} \cup {{<<n, m>>} : n \in {"F", "G", "H"}, m \in HookNames}

\* the hooks a LitCore callback dispatches
HooksOf(methodName) ==
  CASE methodName = "connectedCallback" ->
         {"beforeConnectedCallback", "connectedCallback", "afterConnectedCallback"}
    [] methodName = "disconnectedCallback" ->
         {"beforeDisconnectedCallback", "disconnectedCallback", "afterDisconnectedCallback"}
    [] OTHER -> {"attributeChangedCallback"}

\* which hook throws in the callback methodName
ThrowsIn(methodName) ==
  {{}} \cup {{<<n, m>>} : n \in {"F", "G", "H"}, m \in HooksOf(methodName)}

\* LitCore.connectedCallback()
ConnectedCallback(c, i, throws) ==
  /\ i \in 1..Len(hosts[c])
  /\ LET h == hosts[c][i]
         h2 == Dispatch3([h EXCEPT !.throws = throws], "beforeConnectedCallback",
                         "connectedCallback", "afterConnectedCallback", <<>>)
     IN  /\ hosts' = [hosts EXCEPT ![c][i] = Kept(h, h2)]
         /\ op' = OpOf("connectedCallback", h, "", "", "", {}, h2)
  /\ UNCHANGED <<decl, cache, folds, ret, late, race, pending>>

\* LitCore.disconnectedCallback()
DisconnectedCallback(c, i, throws) ==
  /\ i \in 1..Len(hosts[c])
  /\ LET h == hosts[c][i]
         h2 == DispatchDisconnect([h EXCEPT !.throws = throws])
     IN  /\ hosts' = [hosts EXCEPT ![c][i] = Kept(h, h2)]
         /\ op' = OpOf("disconnectedCallback", h, "", "", "", {}, h2)
  /\ UNCHANGED <<decl, cache, folds, ret, late, race, pending>>

\* LitCore.attributeChangedCallback(name, oldValue, newValue)
AttributeChangedCallback(c, i, name, oldValue, newValue, throws) ==
  /\ i \in 1..Len(hosts[c])
  /\ LET h == hosts[c][i]
         args == <<name, oldValue, newValue>>
         h2 == Dispatch3([h EXCEPT !.throws = throws], "beforeAttributeChangedCallback",
                         "attributeChangedCallback", "afterAttributeChangedCallback", args)
     IN  /\ hosts' = [hosts EXCEPT ![c][i] = Kept(h, h2)]
         /\ op' = [OpOf("attributeChangedCallback", h, "", "", "", {}, h2)
                     EXCEPT !.args = args]
  /\ UNCHANGED <<decl, cache, folds, ret, late, race, pending>>

\* the class hierarchy the callbacks are exercised on: A provides F, G and
\* H, and C disables G
HookDecls ==
  {[cls |-> "A", via |-> "static", kind |-> "provide", name |-> "G", pk |-> "plain"],
   [cls |-> "A", via |-> "static", kind |-> "provide", name |-> "H", pk |-> "plain"],
   [cls |-> "C", via |-> "static", kind |-> "configure", name |-> "G", pk |-> "disable"]}

InitHooks ==
  /\ decl = DeclOf(BaseDecls \cup HookDecls)
  /\ Fresh

NextHooks ==
  \/ \E ctor \in DeclClasses : \E own \in OwnChoices : ConstructHostWith(ctor, own)
  \/ \E c \in DeclClasses : \E i \in 1..MaxHosts : \E t \in ThrowChoices :
       ConnectedCallback(c, i, t)
  \/ \E c \in DeclClasses : \E i \in 1..MaxHosts : \E v \in {"small", "large"} :
       \E t \in ThrowChoices : AttributeChangedCallback(c, i, "p", "null", v, t)

SpecHooks == InitHooks /\ [][NextHooks]_vars

\* ------------------------------------------------------------------------
\* The callbacks of one host that exists already, of any class of the
\* hierarchy above
\* ------------------------------------------------------------------------
InitOrder ==
  /\ decl = DeclOf(BaseDecls \cup HookDecls)
  /\ \E K \in DeclClasses :
       /\ cache = [c \in DeclClasses |-> IF c = K THEN Resolved(K, 1) ELSE NoPlan]
       /\ folds = [c \in DeclClasses |-> IF c = K THEN 1 ELSE 0]
       /\ ret = [cls |-> K, id |-> 1, hit |-> FALSE]
       /\ hosts = [c \in DeclClasses |->
                     IF c = K THEN <<Constructed(K, Resolved(K, 1))>> ELSE <<>>]
  /\ late = 0
  /\ op = NoOp
  /\ race = NoRace
  /\ pending = NoPending

NextOrder ==
  \/ \E c \in DeclClasses : \E t \in ThrowsIn("connectedCallback") : ConnectedCallback(c, 1, t)
  \/ \E c \in DeclClasses : \E t \in ThrowsIn("disconnectedCallback") :
       DisconnectedCallback(c, 1, t)
  \/ \E c \in DeclClasses : \E v \in {"small", "large"} :
       \E t \in ThrowsIn("attributeChangedCallback") :
         AttributeChangedCallback(c, 1, "p", "null", v, t)
  \/ \E c \in DeclClasses : \E ch \in SUBSET SyncProps :
       FirstUpdated(c, 1, ch) /\ UNCHANGED pending
  \/ \E c \in DeclClasses : \E ch \in SUBSET SyncProps :
       Updated(c, 1, ch) /\ UNCHANGED pending

SpecOrder == InitOrder /\ [][NextOrder]_vars



\* ------------------------------------------------------------------------
\* Update requests followed up: every requestUpdate a feature issues is
\* pending until the host answers it with an update pass, and the code
\* outside (the host's users, the feature's own methods) makes a bounded
\* number of writes
\* ------------------------------------------------------------------------
\* the number of writes made from outside
MaxWrites == 3

\* the update requests among the effects of the step being taken
Issued == Len(Requests(op'.events))

\* a feature's own code or its users write a feature property
ExternalFeatureWrite(c, i, featureName, propertyName, newValue) ==
  /\ pending.writes < MaxWrites
  /\ FeatureWrite(c, i, featureName, propertyName, newValue)
  /\ pending' = [requests |-> pending.requests + Issued,
                 issued |-> pending.issued + Issued,
                 writes |-> pending.writes + 1]

\* the host's own code or its users write a host property
ExternalHostWrite(c, i, propertyName, newValue) ==
  /\ pending.writes < MaxWrites
  /\ HostWrite(c, i, propertyName, newValue)
  /\ pending' = [pending EXCEPT !.writes = @ + 1]

\* the host answers one pending request with an update pass, which reaches
\* the features through LitCore.firstUpdated while the host has not updated
\* yet and through LitCore.updated afterwards
UpdatePass(c, i, changedProperties) ==
  /\ pending.requests > 0
  /\ pending.issued <= MaxWrites
  /\ \/ FirstUpdated(c, i, changedProperties)
     \/ Updated(c, i, changedProperties)
  /\ pending' = [pending EXCEPT !.requests = @ - 1 + Issued, !.issued = @ + Issued]

\* some pending request is answered
AnswerRequest ==
  \E c \in DeclClasses : \E ch \in SUBSET SyncProps : UpdatePass(c, 1, ch)

NextLive ==
  \/ \E c \in DeclClasses : \E p \in SyncProps : \E v \in Vals :
       ExternalFeatureWrite(c, 1, "F", p, v)
  \/ \E c \in DeclClasses : \E p \in SyncProps : \E v \in Vals :
       ExternalHostWrite(c, 1, p, v)
  \/ AnswerRequest

\* an update pass seen through the requests: one pending request is
\* answered and those the hooks issued in the pass are added; no other
\* step of NextLive leaves the number of writes alone
PassAnswers ==
  /\ pending.requests > 0
  /\ pending.issued <= MaxWrites
  /\ \E n \in 0..MaxWrites :
       pending' = [pending EXCEPT !.requests = @ - 1 + n, !.issued = @ + n]

\* the host's update cycle runs as long as a request is pending
SpecLive == InitSync /\ [][NextLive]_vars /\ WF_pending(PassAnswers)

\* ------------------------------------------------------------------------
\* The resolver's helpers applied to drawn inputs: op holds the inputs
\* and the result of the latest application
\* ------------------------------------------------------------------------
\* the hierarchies the resolver is run on here: no declaration at all,
\* configure entries for names nothing provides, and small mixtures
FnDecls ==
  LET D(c, via, kind, name, pk) ==
        [cls |-> c, via |-> via, kind |-> kind, name |-> name, pk |-> pk]
  IN  {{},
       {D("B", "static", "configure", "F", "x")},
       {D("B", "meta", "configure", "G", "disable"), D("C", "static", "configure", "F", "pset")},
       {D("A", "static", "provide", "F", "plain"), D("B", "static", "configure", "G", "disable")},
       {D("A", "meta", "provide", "F", "sub"), D("C", "meta", "configure", "G", "x")},
       {D("A", "static", "provide", "F", "mixed"), D("B", "static", "provide", "G", "plain")},
       {D("A", "static", "provide", "G", "plain"), D("B", "static", "configure", "F", "disable"),
        D("C", "static", "configure", "F", "nest")}}

\* a call about to be made: the helper and its arguments
Call(fn, args) == [kind |-> "call", fn |-> fn, args |-> args]

\* the calls of getInheritanceChain considered: any own markers, any class
ChainCalls ==
  {Call("getInheritanceChain", [marks |-> marks, ctor |-> ctor]) :
     marks \in [CtorClasses -> MarkVals], ctor \in CtorClasses}

\* getInheritanceChain(ctor) runs in a hierarchy with the own markers marks
ApplyChain ==
  /\ op.kind = "call" /\ op.fn = "getInheritanceChain"
  /\ op' = [kind |-> "getInheritanceChain", marks |-> op.args.marks, ctor |-> op.args.ctor,
            result |-> InheritanceChainIn(op.args.marks, op.args.ctor)]
  /\ UNCHANGED <<decl, cache, folds, ret, hosts, late, race, pending>>

\* the longest sequence of configure entries folded
MaxEntries == 3

\* an entry with config and property overrides
ConfigAndProps(config, props) ==
  [kind |-> "entry", hasConfig |-> TRUE, config |-> config,
   hasProps |-> TRUE, props |-> props]

\* the configure entries a class can write for one feature name
EntryChoices ==
  {Disable,
   ConfigOnly(("x" :> Num(1)) @@ ("nested" :> Obj("a" :> Num(1)))),
   ConfigOnly(("y" :> Num(2)) @@ ("nested" :> Obj("b" :> Num(2)))),
   ConfigAndProps("x" :> Num(3), "q" :> "d3"),
   PropsOnly("p" :> "d3"),
   PropsOnly("p" :> "disable")}

\* the entries written for one feature name down a chain, root first
RECURSIVE EntrySeqs(_)
EntrySeqs(n) ==
  IF n = 0 THEN {<<>>}
  ELSE LET prev == EntrySeqs(n - 1)
       IN  prev \cup {Append(es, e) : es \in {t \in prev : Len(t) = n - 1}, e \in EntryChoices}

FoldCalls == {Call("mergeConfigEntries", [entries |-> es]) : es \in EntrySeqs(MaxEntries) \ {<<>>}}

\* configs.set(name, mergeConfigEntries(configs.get(name), config)) for the
\* entries of one name, one after the other
foldEntries(es) ==
  MapGet(MergeAll(<<>>, [i \in 1..Len(es) |-> [name |-> "F", val |-> es[i]]]), "F")

\* the entries of a chain are folded
ApplyFold ==
  /\ op.kind = "call" /\ op.fn = "mergeConfigEntries"
  /\ op' = [kind |-> "mergeConfigEntries", entries |-> op.args.entries,
            result |-> foldEntries(op.args.entries)]
  /\ UNCHANGED <<decl, cache, folds, ret, hosts, late, race, pending>>

\* a field no class has as its own
NoField == [has |-> FALSE, val |-> EmptyObj]

\* the own static properties and the own metadata store of the feature classes
FeatureTable ==
  [f \in FeatureClasses |-> [props |-> FeatOwnProps(f), meta |-> FeatOwnMeta(f)]]

\* the feature classes before the property decorators of F2 and F3 ran
Undecorated ==
  [FeatureTable EXCEPT !["F2"] = [props |-> NoField, meta |-> NoField],
                       !["F3"] = [props |-> NoField, meta |-> NoField]]

\* inherited read ctor.properties || {}
RECURSIVE PropsIn(_, _)
PropsIn(tbl, f) ==
  IF f = "null" THEN EmptyObj
  ELSE IF tbl[f].props.has THEN tbl[f].props.val ELSE PropsIn(tbl, FeatParent(f))

\* property(options)(target, propertyKey) with target.constructor = ctor
propertyDecorator(tbl, ctor, propertyKey, options) ==
  LET store == IF tbl[ctor].meta.has THEN tbl[ctor].meta.val ELSE EmptyObj
      parentProperties == PropsIn(tbl, ctor)
      own == IF tbl[ctor].props.has THEN tbl[ctor].props.val ELSE parentProperties
  IN  [tbl EXCEPT ![MetaOwner(ctor)] =
         [props |-> [has |-> TRUE, val |-> Assign(own, propertyKey :> options)],
          meta |-> [has |-> TRUE, val |-> Assign(store, propertyKey :> options)]]]

\* the calls of the property decorator considered
PropertyCalls ==
  {Call("property", [tbl |-> tbl, ctor |-> ctor, propertyKey |-> k, options |-> o]) :
     tbl \in {FeatureTable, Undecorated}, ctor \in FeatureClasses \ {"LitFeature"},
     k \in {"p", "q", "r"}, o \in {"d1", "d2"}}

\* the property decorator runs on a field of feature class ctor
ApplyProperty ==
  /\ op.kind = "call" /\ op.fn = "property"
  /\ op' = [kind |-> "property", before |-> op.args.tbl, ctor |-> op.args.ctor,
            propertyKey |-> op.args.propertyKey, options |-> op.args.options,
            after |-> propertyDecorator(op.args.tbl, op.args.ctor,
                                        op.args.propertyKey, op.args.options)]
  /\ UNCHANGED <<decl, cache, folds, ret, hosts, late, race, pending>>

\* the decorators applied to host classes here
AnnotateKinds ==
  {[kind |-> "configure", name |-> "F", pk |-> "x"],
   [kind |-> "configure", name |-> "G", pk |-> "disable"],
   [kind |-> "provide", name |-> "G", pk |-> "plain"]}

\* a provide or configure decorator runs on host class c; op keeps the
\* class and the hierarchy before it
Annotate(c, k) ==
  /\ late < MaxLate
  /\ late' = late + 1
  /\ decl' = Decorated(c, k)
  /\ op' = [kind |-> "decorate", cls |-> c, decorator |-> k, before |-> decl]
  /\ UNCHANGED <<cache, folds, ret, hosts, race, pending>>

\* either one of the hierarchies, to be resolved, or a class hierarchy
\* without declarations and a helper call to be made
InitFn ==
  /\ cache = [c \in DeclClasses |-> NoPlan]
  /\ folds = [c \in DeclClasses |-> 0]
  /\ ret = [cls |-> "null", id |-> 0, hit |-> FALSE]
  /\ hosts = [c \in DeclClasses |-> <<>>]
  /\ late = 0
  /\ race = NoRace
  /\ pending = NoPending
  /\ \/ op = NoOp /\ \E S \in FnDecls : decl = DeclOf(S)
     \/ op \in ChainCalls \cup PropertyCalls \cup FoldCalls /\ decl = DeclOf({})

NextFn ==
  \/ \E ctor \in DeclClasses : Register(ctor)
  \/ ApplyChain
  \/ ApplyProperty
  \/ ApplyFold
  \/ \E c \in DeclClasses : \E k \in AnnotateKinds : Annotate(c, k)

SpecFn == InitFn /\ [][NextFn]_vars

\* ------------------------------------------------------------------------
\* Values supplied from outside before the first update: on the element
\* before its constructor runs (an upgraded element), or on the instance
\* after it
\* ------------------------------------------------------------------------
\* the fields an element has before it is upgraded
SuppliedChoices == {EmptyObj, "p" :> "large"}

\* the hierarchies: B removes F's property p and C provides the subclass
\* F2 of F's class; or B provides the subclass F5 and C the class F4
SupplyDecls ==
  {{[cls |-> "B", via |-> "static", kind |-> "configure", name |-> "F", pk |-> "pdis"],
    [cls |-> "C", via |-> "static", kind |-> "provide", name |-> "F", pk |-> "sub"]},
   {[cls |-> "B", via |-> "static", kind |-> "provide", name |-> "F", pk |-> "narrow"],
    [cls |-> "C", via |-> "meta", kind |-> "provide", name |-> "F", pk |-> "mixed"]}}

\* host[propertyName] = newValue from outside, before the first update;
\* supplied keeps the value
SuppliedWrite(c, i, propertyName, newValue) ==
  /\ i \in 1..Len(hosts[c])
  /\ ~hosts[c][i].hasUpdated
  /\ LET h == hosts[c][i]
         h2 == [h EXCEPT !.values = Assign(@, propertyName :> newValue),
                         !.supplied = Assign(@, propertyName :> newValue)]
     IN  /\ hosts' = [hosts EXCEPT ![c][i] = h2]
         /\ op' = OpOf("hostWrite", h, "", propertyName, newValue, {}, h2)
  /\ UNCHANGED <<decl, cache, folds, ret, late, race, pending>>

InitSupply ==
  /\ \E S \in SupplyDecls : decl = DeclOf(BaseDecls \cup S)
  /\ Fresh

NextSupply ==
  \/ \E ctor \in DeclClasses : \E own \in SuppliedChoices : ConstructHostWith(ctor, own)
  \/ \E c \in DeclClasses : \E v \in Vals : SuppliedWrite(c, 1, "p", v)
  \/ \E c \in DeclClasses : \E ch \in SUBSET SyncProps :
       FirstUpdated(c, 1, ch) /\ UNCHANGED pending

SpecSupply == InitSupply /\ [][NextSupply]_vars


\* ------------------------------------------------------------------------
\* Class finalization: LitCore.finalize merges the properties and styles
\* of the resolved features into the host class
\* ------------------------------------------------------------------------
\* the static properties and styles the host classes write themselves
OwnStatics ==
  {[c \in DeclClasses |-> [properties |-> [has |-> FALSE, val |-> EmptyObj],
                           styles |-> [has |-> FALSE, val |-> <<>>]]],
   [c \in DeclClasses |->
      IF c = "A" THEN [properties |-> [has |-> TRUE, val |-> ("p" :> "a") @@ ("z" :> "a")],
                       styles |-> [has |-> TRUE, val |-> <<"sa">>]]
      ELSE [properties |-> [has |-> FALSE, val |-> EmptyObj],
            styles |-> [has |-> FALSE, val |-> <<>>]]],
   [c \in DeclClasses |->
      IF c = "B" THEN [properties |-> [has |-> TRUE, val |-> ("p" :> "b") @@ ("g" :> "b")],
                       styles |-> [has |-> FALSE, val |-> <<>>]]
      ELSE [properties |-> [has |-> FALSE, val |-> EmptyObj],
            styles |-> [has |-> FALSE, val |-> <<>>]]],
   [c \in DeclClasses |->
      IF c = "A" THEN [properties |-> [has |-> TRUE, val |-> ("p" :> "a") @@ ("z" :> "a")],
                       styles |-> [has |-> FALSE, val |-> <<>>]]
      ELSE IF c = "B"
      THEN [properties |-> [has |-> TRUE, val |-> ("q" :> "b") @@ ("z" :> "b")],
            styles |-> [has |-> TRUE, val |-> <<"sb">>]]
      ELSE [properties |-> [has |-> FALSE, val |-> EmptyObj],
            styles |-> [has |-> FALSE, val |-> <<>>]]]}

\* the hierarchies finalized: below the root, which provides F, a class
\* disables F, removes or sets F's property p, or disables G
FinalDecls ==
  LET D(c, via, kind, name, pk) ==
        [cls |-> c, via |-> via, kind |-> kind, name |-> name, pk |-> pk]
  IN  {{},
       {D("B", "static", "configure", "F", "disable")},
       {D("B", "meta", "configure", "F", "pdis")},
       {D("B", "static", "configure", "F", "pset")},
       {D("A", "static", "provide", "G", "plain"), D("C", "static", "configure", "G", "disable")},
       {D("B", "static", "provide", "F", "sub"), D("C", "meta", "configure", "F", "disable")}}

\* the inherited read of a static field (properties, styles) of class c:
\* the own field of the nearest class that has one, LitElement has none
RECURSIVE StaticRead(_, _, _)
StaticRead(d, c, field) ==
  IF c \notin DeclClasses THEN [has |-> FALSE]
  ELSE IF d[c][field].has THEN d[c][field] ELSE StaticRead(d, CtorParent(c), field)

\* { ...ownProps, ...resolved.properties, ...superProps }
spreadOwnFirst(superProps, featureProps, ownProps) ==
  Assign(Assign(ownProps, featureProps), superProps)

\* { ...superProps, ...resolved.properties, ...ownProps }
spread(superProps, featureProps, ownProps) ==
  Assign(Assign(superProps, featureProps), ownProps)

\* the properties and styles finalize writes on class c, whose plan is resolved
mergeStatics(d, c, resolved) ==
  LET sp == StaticRead(d, CtorParent(c), "properties")
      superProps == IF sp.has THEN sp.val ELSE EmptyObj
      ownProps == IF d[c].properties.has THEN d[c].properties.val ELSE EmptyObj
      ss == StaticRead(d, CtorParent(c), "styles")
      superStyles == IF ss.has THEN ss.val ELSE <<>>
      ownStyles == IF d[c].styles.has THEN d[c].styles.val ELSE <<>>
      allStyles == superStyles \o resolved.styles \o ownStyles
  IN  [d EXCEPT ![c].properties =
                    [has |-> TRUE, val |-> spread(superProps, resolved.properties, ownProps)],
                ![c].styles = IF allStyles # <<>> THEN [has |-> TRUE, val |-> allStyles] ELSE @]

\* LitCore.finalize on class c, in the state st (the classes' static fields,
\* the plans cached, the folds made and the classes finalize ran on):
\* the plan is resolved, the statics are merged, and super.finalize(), when
\* the class has no finalized mark of its own yet, sets the mark and calls
\* finalize on the parent class
RECURSIVE finalize(_, _)
finalize(st, c) ==
  IF c \notin DeclClasses THEN st
  ELSE
    LET hit == st.cache[c].has
        resolved == IF hit THEN st.cache[c] ELSE Resolved(c, st.folds[c] + 1)
        st1 == [st EXCEPT !.cache[c] = resolved,
                          !.folds[c] = IF hit THEN @ ELSE @ + 1,
                          !.ret = [cls |-> c, id |-> resolved.id, hit |-> hit],
                          !.ran = Append(@, c),
                          !.decl = mergeStatics(@, c, resolved)]
    IN  IF st.decl[c].finalized THEN st1
        ELSE finalize([st1 EXCEPT !.decl[c].finalized = TRUE], CtorParent(c))

\* the classes finalize(c) runs on
RECURSIVE Cascade(_)
Cascade(c) ==
  IF c \notin DeclClasses THEN {}
  ELSE IF decl[c].finalized THEN {c} ELSE {c} \cup Cascade(CtorParent(c))

\* customElements.define(name, c), which a class allows once, reads
\* c.observedAttributes, and Lit's getter calls c.finalize(); op keeps the
\* hierarchy and the plans before it
Finalize(c) ==
  /\ ~decl[c].defined
  /\ \A k \in Cascade(c) : CacheHit(k) \/ folds[k] < MaxFolds
  /\ LET st == finalize([decl |-> decl, cache |-> cache, folds |-> folds, ret |-> ret,
                         ran |-> <<>>], c)
     IN  /\ decl' = [st.decl EXCEPT ![c].defined = TRUE]
         /\ cache' = st.cache
         /\ folds' = st.folds
         /\ ret' = st.ret
         /\ op' = [kind |-> "finalize", cls |-> c, ran |-> st.ran, before |-> decl,
                   plans |-> cache]
  /\ UNCHANGED <<hosts, late, race, pending>>

InitFinal ==
  /\ \E S \in FinalDecls : \E own \in OwnStatics :
       decl = [c \in DeclClasses |->
                 [DeclOf(BaseDecls \cup S)[c] EXCEPT !.properties = own[c].properties,
                                                     !.written = own[c].properties.val,
                                                     !.styles = own[c].styles]]
  /\ Fresh

NextFinal ==
  \/ \E ctor \in DeclClasses : Register(ctor)
  \/ \E c \in DeclClasses : Finalize(c)

SpecFinal == InitFinal /\ [][NextFinal]_vars


\* ------------------------------------------------------------------------
\* What the classes declare, read class by class (own declarations only)
\* ------------------------------------------------------------------------
\* the declaring classes of K's chain
ChainOf(K) == {c \in DeclClasses : \E i \in 1..Len(getInheritanceChain(K)) :
                                      getInheritanceChain(K)[i] = c}

OwnProvideMap(c, via) ==
  IF via = "static"
  THEN (IF decl[c].provide.has THEN decl[c].provide.entries ELSE <<>>)
  ELSE (IF decl[c].meta.has THEN decl[c].meta.provide ELSE <<>>)

OwnConfigureMap(c, via) ==
  IF via = "static"
  THEN (IF decl[c].configure.has THEN decl[c].configure.entries ELSE <<>>)
  ELSE (IF decl[c].meta.has THEN decl[c].meta.configure ELSE <<>>)

\* the definitions class c itself declares for name n
OwnDefs(c, n) ==
  {MapGet(OwnProvideMap(c, via), n) : via \in {v \in {"static", "meta"} : MapHas(OwnProvideMap(c, v), n)}}

\* the configure entries class c itself declares for name n
OwnEntries(c, n) ==
  {MapGet(OwnConfigureMap(c, via), n) : via \in {v \in {"static", "meta"} : MapHas(OwnConfigureMap(c, v), n)}}

\* the class of S nearest to the leaf
Nearest(S) == CHOOSE c \in S : \A d \in S : ClassIdx(d) <= ClassIdx(c)

\* the classes of K's chain that provide / configure n themselves
Providers(K, n) == {c \in ChainOf(K) : OwnDefs(c, n) # {}}

Configurers(K, n) == {c \in ChainOf(K) : OwnEntries(c, n) # {}}

\* the plan of K lists n
Active(K, n) == cache[K].has /\ MapHas(cache[K].features, n)

PlanConfig(K, n) == MapGet(cache[K].features, n).config

SetsX(e) == e.kind = "entry" /\ e.hasConfig /\ "x" \in DOMAIN e.config

\* the class whose plan the latest call computed (a cache miss); every plan
\* is computed by exactly one such call
Computed == {K \in DeclClasses : ret.cls = K /\ ~ret.hit}

\* ------------------------------------------------------------------------
\* C1: F is provided by the root class only, with a default for x, and the
\* classes below configure x: the final x of a resolved class is the x of
\* the nearest class at or above it that configures x, and the default's x
\* when there is none.
\* ------------------------------------------------------------------------
C1_Frame(K) ==
  /\ cache[K].has
  /\ Providers(K, "F") = {"A"}
  /\ \A d \in OwnDefs("A", "F") : d.enabled # "false" /\ d.hasConfig /\ "x" \in DOMAIN d.config
  /\ Cardinality(OwnDefs("A", "F")) = 1
  /\ \A c \in ChainOf(K) : \A e \in OwnEntries(c, "F") : SetsX(e)

C1_Expected(K) ==
  IF Configurers(K, "F") = {}
  THEN (CHOOSE d \in OwnDefs("A", "F") : TRUE).config["x"]
  ELSE (CHOOSE e \in OwnEntries(Nearest(Configurers(K, "F")), "F") : TRUE).config["x"]

C1_OverrideOrdering ==
  \A K \in DeclClasses :
    C1_Frame(K) => Active(K, "F") /\ PlanConfig(K, "F")["x"] = C1_Expected(K)


\* ------------------------------------------------------------------------
\* C2: a class that provides F again replaces the definition of its
\* ancestor: the plan of a class uses the definition of the nearest class
\* at or above it that provides F (its feature class, and its default
\* config when nothing configures F), whichever way each class declared it.
\* ------------------------------------------------------------------------
C2_Frame(K) ==
  /\ cache[K].has
  /\ Cardinality(Providers(K, "F")) >= 2
  /\ Cardinality(OwnDefs(Nearest(Providers(K, "F")), "F")) = 1
  /\ \A d \in OwnDefs(Nearest(Providers(K, "F")), "F") : d.enabled # "false"
  /\ Configurers(K, "F") = {}

C2_SubclassProvideReplaces ==
  \A K \in DeclClasses :
    C2_Frame(K) =>
      LET d == CHOOSE x \in OwnDefs(Nearest(Providers(K, "F")), "F") : TRUE
      IN  /\ Active(K, "F")
          /\ MapGet(cache[K].features, "F").class = d.class
          /\ PlanConfig(K, "F") = (IF d.hasConfig THEN d.config ELSE EmptyObj)

\* ------------------------------------------------------------------------
\* C3: an ancestor configures F as disable and the class provides F again
\* with an enabled definition: F is in the plan of the class.
\* ------------------------------------------------------------------------
C3_Frame(K) ==
  /\ cache[K].has
  /\ \E B \in ChainOf(K) : ClassIdx(B) < ClassIdx(K) /\ Disable \in OwnEntries(B, "F")
  /\ Disable \notin OwnEntries(K, "F")
  /\ OwnDefs(K, "F") # {}
  /\ \A c \in ChainOf(K) : \A d \in OwnDefs(c, "F") : d.enabled # "false"

C3_ReprovideOverridesDisable ==
  \A K \in DeclClasses : C3_Frame(K) => Active(K, "F")

\* ------------------------------------------------------------------------
\* C4: a class configures F as disable and no class below it provides or
\* configures F: F is absent from the plan of that class and of every such
\* descendant.
\* ------------------------------------------------------------------------
C4_Frame(K) ==
  /\ cache[K].has
  /\ \E B \in ChainOf(K) :
       /\ OwnEntries(B, "F") = {Disable}
       /\ \A c \in ChainOf(K) :
            ClassIdx(c) > ClassIdx(B) => OwnDefs(c, "F") = {} /\ OwnEntries(c, "F") = {}

C4_DisableInherited ==
  \A K \in DeclClasses : C4_Frame(K) => ~Active(K, "F")

\* ------------------------------------------------------------------------
\* C5: the plan lists exactly the names that some class of the chain
\* provides, whose winning (leaf-most) definition is not enabled = false and
\* whose leaf-most configure declaration is not disable; each once.
\* ------------------------------------------------------------------------
C5_Unambiguous(K) ==
  \A c \in ChainOf(K) : \A n \in {"F", "G"} :
    Cardinality(OwnDefs(c, n)) <= 1 /\ Cardinality(OwnEntries(c, n)) <= 1

C5_Expected(K) ==
  {n \in {"F", "G"} :
     /\ Providers(K, n) # {}
     /\ \A d \in OwnDefs(Nearest(Providers(K, n)), n) : d.enabled # "false"
     /\ \/ Configurers(K, n) = {}
        \/ Disable \notin OwnEntries(Nearest(Configurers(K, n)), n)}

C5_ExactlyTheEnabledFeatures ==
  \A K \in DeclClasses :
    (cache[K].has /\ C5_Unambiguous(K)) =>
      /\ MapKeys(cache[K].features) = C5_Expected(K)
      /\ Len(cache[K].features) = Cardinality(MapKeys(cache[K].features))

\* ------------------------------------------------------------------------
\* C6: a class of the chain configures the active feature F with
\* properties {p: disable} and no class below it overrides p: p is not a
\* resolved property of the leaf (no other feature declares p).
\* ------------------------------------------------------------------------
MentionsP(e) == e.kind = "entry" /\ e.hasProps /\ "p" \in DOMAIN e.props

C6_Frame(K) ==
  /\ Active(K, "F")
  /\ \E Z \in ChainOf(K) :
       /\ OwnEntries(Z, "F") = {PropsOnly("p" :> "disable")}
       /\ \A c \in ChainOf(K) :
            ClassIdx(c) > ClassIdx(Z) => \A e \in OwnEntries(c, "F") : ~MentionsP(e)

C6_PropertyRemoval ==
  \A K \in DeclClasses : C6_Frame(K) => "p" \notin DOMAIN cache[K].properties


\* ------------------------------------------------------------------------
\* C7: finalConfig is the deep merge of the definition's default config with
\* the accumulated configure config: every key of either is present, a key
\* the configure config does not mention keeps the default's value at both
\* nesting levels, and the configure config wins on every leaf it sets
\* (stated of each plan when it is computed).
\* With the root's default {x: 1, nested: {a: 1}} and configure entries
\* {nested: {b: i}} only, nested keeps a = 1 and gains b.
\* ------------------------------------------------------------------------
NestedOf(cfg, k) == IF k \in DOMAIN cfg /\ cfg[k].t = "obj" THEN cfg[k].o ELSE EmptyObj

C7_MergedAt(fin, dflt, conf) ==
  /\ DOMAIN fin = (DOMAIN dflt) \cup (DOMAIN conf)
  /\ \A k \in DOMAIN fin :
       IF k \notin DOMAIN conf THEN fin[k] = dflt[k]
       ELSE IF conf[k].t = "num" THEN fin[k] = conf[k]
       ELSE /\ fin[k].t = "obj"
            /\ DOMAIN fin[k].o = (DOMAIN NestedOf(dflt, k)) \cup (DOMAIN conf[k].o)
            /\ \A j \in DOMAIN fin[k].o :
                 fin[k].o[j] = (IF j \in DOMAIN conf[k].o THEN conf[k].o[j]
                                ELSE NestedOf(dflt, k)[j])

C7_NestOnly(K) ==
  /\ Providers(K, "F") = {"A"}
  /\ OwnDefs("A", "F") = {ProvidePayload("A", "F", "plain")}
  /\ Configurers(K, "F") # {}
  /\ \A c \in ChainOf(K) : \A e \in OwnEntries(c, "F") :
       e.kind = "entry" /\ e.hasConfig /\ DOMAIN e.config = {"nested"}

C7_DeepMerge ==
  \A K \in Computed :
    /\ LET st == Collected(K)
       IN  \A n \in MapKeys(cache[K].features) :
             (MapHas(st.configs, n) /\ MapGet(st.configs, n).kind = "entry") =>
               C7_MergedAt(PlanConfig(K, n), MapGet(st.provides, n).def.config,
                           MapGet(st.configs, n).config)
    /\ (cache[K].has /\ C7_NestOnly(K)) =>
         /\ Active(K, "F")
         /\ PlanConfig(K, "F")["x"] = Num(1)
         /\ DOMAIN PlanConfig(K, "F")["nested"].o = {"a", "b"}
         /\ PlanConfig(K, "F")["nested"].o["a"] = Num(1)

C7_Witness ==
  /\ C7_NestOnly("B")
  /\ Active("B", "F")
  /\ PlanConfig("B", "F") =
       ("x" :> Num(1)) @@ ("nested" :> Obj(("a" :> Num(1)) @@ ("b" :> Num(2))))

\* ------------------------------------------------------------------------
\* C8: a feature the build loop dropped (its accumulated entry is disable,
\* or its winning definition has enabled = false) contributes nothing for
\* that class: it has no entry in the plan's features; no property and no
\* style block that only its feature class chain declares is in the plan;
\* and no host instance of the class holds an instance of it or a field for
\* it, under its name or the prefixed name.
\* ------------------------------------------------------------------------
Range(q) == {q[i] : i \in 1..Len(q)}

DroppedBy(K) == {m \in Range(cache[K].met) : m.disable \/ m.enabled = "false"}

KeptBy(K) == Range(cache[K].met) \ DroppedBy(K)

C8_DroppedContributesNothing ==
  \A K \in DeclClasses : \A m \in DroppedBy(K) :
    LET keptProps == UNION {DOMAIN collectFeatureProperties(k.class) : k \in KeptBy(K)}
        keptStyles == UNION {Range(collectFeatureStyles(k.class)) : k \in KeptBy(K)}
    IN  /\ ~MapHas(cache[K].features, m.name)
        /\ \A p \in (DOMAIN collectFeatureProperties(m.class)) \ keptProps :
             p \notin DOMAIN cache[K].properties
        /\ \A b \in Range(collectFeatureStyles(m.class)) \ keptStyles :
             b \notin Range(cache[K].styles)
        /\ \A h \in Range(hosts[K]) :
             /\ ~MapHas(h.instances, m.name)
             /\ m.name \notin h.fields
             /\ ("_" \o m.name) \notin h.fields

\* a host of class C lives without G (disabled by C) and with F attached
C8_Witness ==
  /\ Len(hosts["C"]) = 1
  /\ \E m \in DroppedBy("C") : m.name = "G" /\ m.disable
  /\ MapKeys(hosts["C"][1].instances) = {"F"}
  /\ "F" \in hosts["C"][1].fields
  /\ DOMAIN cache["C"].properties = {"p", "q"}
  /\ cache["C"].styles = <<"s1">>

\* ------------------------------------------------------------------------
\* C10: once the plan of a class is cached, no later step changes its
\* feature set, any finalConfig, its properties or its styles.
\* ------------------------------------------------------------------------
PlanContent(plan) ==
  [features |-> [i \in 1..Len(plan.features) |->
                   [name |-> plan.features[i].name,
                    class |-> plan.features[i].val.class,
                    config |-> plan.features[i].val.config]],
   properties |-> plan.properties,
   styles |-> plan.styles]

C10_PlanNeverChanges ==
  [][\A K \in DeclClasses :
       cache[K].has => cache'[K].has /\ PlanContent(cache'[K]) = PlanContent(cache[K])]_vars

\* ------------------------------------------------------------------------
\* C9: resolve is memoized per class: the chain of a class is folded at most
\* once, and every call returns the plan object the first call created.
\* ------------------------------------------------------------------------
C9_Memoized ==
  \A K \in DeclClasses :
    /\ folds[K] <= 1
    /\ cache[K].has => cache[K].id = 1 /\ folds[K] = 1
    /\ ret.cls = K => cache[K].has /\ ret.id = cache[K].id /\ ret.id = 1

C9_Witness ==
  /\ ret.cls = "B"
  /\ ret.hit
  /\ ret.id = 1
  /\ folds["B"] = 1

\* ------------------------------------------------------------------------
\* The latest operation on a host's properties, read from op
\* ------------------------------------------------------------------------
\* the host the operation acted on, as it is now
OpHost == hosts[op.cls][1]

\* the host's value of a property before the operation
HostBefore(propertyName) ==
  IF propertyName \in DOMAIN op.host THEN op.host[propertyName] ELSE "undefined"

\* the feature instance before and after the operation
InstBefore(featureName) == MapGet(op.instances, featureName)

InstAfter(featureName) == MapGet(OpHost.instances, featureName)

\* the operation was feature[op.prop] = op.value on instance op.feature
IsSet == op.kind = "set"

CachedBefore == getInternalValue(InstBefore(op.feature), op.prop)

CachedAfter == getInternalValue(InstAfter(op.feature), op.prop)

\* the operation left everything but the cached value of op.prop alone
OnlyCacheTouched ==
  /\ op.events = <<>>
  /\ OpHost.values = op.host
  /\ \A i \in 1..Len(op.instances) :
       /\ OpHost.instances[i].name = op.instances[i].name
       /\ \A q \in {x \in {"p", "q", "r", "g", "h"} :
                      ~(op.instances[i].name = op.feature /\ x = op.prop)} :
            /\ (q \in DOMAIN OpHost.instances[i].val.internal)
                 = (q \in DOMAIN op.instances[i].val.internal)
            /\ getInternalValue(OpHost.instances[i].val, q)
                 = getInternalValue(op.instances[i].val, q)
       /\ OpHost.instances[i].val.suspended = op.instances[i].val.suspended

\* ------------------------------------------------------------------------
\* C11: a write of v to a feature property whose host value is already v
\* and whose cached value is not v writes nothing to the host and requests
\* no update; only the cached value of that property changes, to v.
\* ------------------------------------------------------------------------
C11_MirrorOnly ==
  (IsSet /\ HostBefore(op.prop) = op.value /\ CachedBefore # op.value) =>
    /\ Sets(op.events) = <<>>
    /\ Requests(op.events) = <<>>
    /\ CachedAfter = op.value
    /\ OnlyCacheTouched

C11_Witness ==
  /\ IsSet /\ op.prop = "p" /\ op.value = "large"
  /\ HostBefore("p") = "large" /\ CachedBefore = "small"
  /\ CachedAfter = "large"

\* ------------------------------------------------------------------------
\* C12: a write of v that differs from the cached value and from the host's
\* value, on an instance that is not suspended, writes v to the host's
\* property exactly once, caches v, and requests exactly one update, for
\* that property and with the host's previous value.
\* ------------------------------------------------------------------------
C12_FullWrite ==
  (/\ IsSet /\ HostBefore(op.prop) # op.value /\ CachedBefore # op.value
   /\ ~InstBefore(op.feature).suspended) =>
    /\ Sets(op.events) = <<Ev("set", op.feature, op.prop, op.value)>>
    /\ HostValue(OpHost, op.prop) = op.value
    /\ CachedAfter = op.value
    /\ Requests(op.events) = <<Ev("request", op.feature, op.prop, HostBefore(op.prop))>>

C12_Witness ==
  /\ IsSet /\ op.prop = "p" /\ op.value = "large"
  /\ HostBefore("p") = "small" /\ CachedBefore = "undefined"
  /\ ~InstBefore("F").suspended
  /\ Requests(op.events) = <<Ev("request", "F", "p", "small")>>
  /\ HostValue(OpHost, "p") = "large"

\* ------------------------------------------------------------------------
\* C13: a write of the value the feature already caches changes nothing:
\* not the cache, not the host's property, and no update is requested,
\* whatever the host's value is.
\* ------------------------------------------------------------------------
C13_NoOp ==
  (IsSet /\ CachedBefore = op.value) =>
    /\ op.events = <<>>
    /\ OpHost.values = op.host
    /\ OpHost.instances = op.instances

C13_Witness ==
  /\ IsSet /\ op.prop = "p" /\ op.value = "small"
  /\ CachedBefore = "small" /\ HostBefore("p") = "large"
  /\ HostValue(OpHost, "p") = "large"

\* ------------------------------------------------------------------------
\* C15: on a suspended instance a write of a value that is not the cached
\* one still leaves the host's property and the cache at that value (with
\* one host write when the host held another value) and requests no
\* update; on an instance that has been resumed the write of a value new
\* to both requests an update again.
\* ------------------------------------------------------------------------
C15_Suspension ==
  IsSet /\ CachedBefore # op.value =>
    /\ HostValue(OpHost, op.prop) = op.value
    /\ CachedAfter = op.value
    /\ (HostBefore(op.prop) # op.value =>
          Sets(op.events) = <<Ev("set", op.feature, op.prop, op.value)>>)
    /\ (InstBefore(op.feature).suspended => Requests(op.events) = <<>>)
    /\ (/\ ~InstBefore(op.feature).suspended
        /\ HostBefore(op.prop) # op.value
        /\ \E i \in 1..Len(OpHost.log) : OpHost.log[i] = Ev("resume", op.feature, "", "")
        => Len(Requests(op.events)) = 1)

C15_Witness ==
  /\ IsSet /\ op.prop = "p" /\ op.value = "large"
  /\ InstBefore("F").suspended
  /\ HostBefore("p") = "small" /\ CachedBefore = "small"
  /\ HostValue(OpHost, "p") = "large" /\ CachedAfter = "large"
  /\ Requests(op.events) = <<>>

\* ------------------------------------------------------------------------
\* C14: a write of p by the host and a write of p through feature F's
\* accessor, in either order, followed by the update pass that reports p:
\* afterwards feature F caches the host's value of p, and feature F has
\* requested at most one update in the two writes.
\* ------------------------------------------------------------------------
C14_Convergence ==
  \A c \in DeclClasses : \A i \in 1..Len(hosts[c]) :
    (Len(race.seq) = 3 /\ MapHas(hosts[c][i].instances, "F")) =>
      /\ getInternalValue(MapGet(hosts[c][i].instances, "F"), "p") = HostValue(hosts[c][i], "p")
      /\ race.requests <= 1

C14_Witness ==
  /\ race = [seq |-> <<"F", "H", "U">>, requests |-> 1]
  /\ op.kind = "updated" /\ "p" \in op.changed
  /\ HostBefore("p") = "large"
  /\ getInternalValue(InstBefore("F"), "p") = "undefined"
  /\ getInternalValue(InstAfter("F"), "p") = "large"

\* ------------------------------------------------------------------------
\* C16: a host whose plan has three features, each of which wrote one
\* default through its accessor in its constructor, has received exactly
\* one update request when its construction is over.
\* ------------------------------------------------------------------------
C16_Frame(h) ==
  /\ Len(h.instances) = 3
  /\ \A i \in 1..3 :
       Len(SelectSeq(Sets(h.log), LAMBDA x : x.by = h.instances[i].name)) = 1

C16_OneRequestOnConstruction ==
  \A c \in DeclClasses : \A i \in 1..Len(hosts[c]) :
    C16_Frame(hosts[c][i]) => Len(Requests(hosts[c][i].log)) = 1

\* ------------------------------------------------------------------------
\* C17: the manager constructs, suspends and attaches every feature
\* instance (in this order for each), then resumes every instance, then
\* requests one update on the host, its last step; no instance of a
\* constructed host is suspended.
\* ------------------------------------------------------------------------
Count(log, ev) == Len(SelectSeq(log, LAMBDA x : x = ev))

Pos(log, ev) == CHOOSE i \in 1..Len(log) : log[i] = ev

C17_Order(h) ==
  LET L == h.log
      N == MapKeys(h.instances)
      Step(e, n) == Ev(e, n, "", "")
      ByManager == Ev("request", "manager", "", "")
  IN  /\ \A n \in N : \A e \in {"construct", "suspend", "attach", "resume"} :
           Count(L, Step(e, n)) = 1
      /\ \A n \in N :
           /\ Pos(L, Step("construct", n)) < Pos(L, Step("suspend", n))
           /\ Pos(L, Step("suspend", n)) < Pos(L, Step("attach", n))
      /\ \A n \in N : \A m \in N : Pos(L, Step("attach", n)) < Pos(L, Step("resume", m))
      /\ Count(L, ByManager) = 1
      /\ Pos(L, ByManager) = Len(L)
      /\ \A n \in N : ~MapGet(h.instances, n).suspended

C17_ConstructionOrder ==
  \A c \in DeclClasses : \A i \in 1..Len(hosts[c]) : C17_Order(hosts[c][i])

C17_Witness ==
  /\ Len(hosts["A"]) = 1
  /\ MapKeys(hosts["A"][1].instances) = {"F", "G", "H"}
  /\ Pos(hosts["A"][1].log, Ev("attach", "H", "", ""))
       < Pos(hosts["A"][1].log, Ev("resume", "F", "", ""))
  /\ hosts["A"][1].log[Len(hosts["A"][1].log)] = Ev("request", "manager", "", "")

\* ------------------------------------------------------------------------
\* C18: in the first update pass, for every property a feature declares
\* whose host value is defined and is not the feature's cached value, the
\* feature afterwards caches the host's value, the host's value is what it
\* was, and no update is requested for it.
\* ------------------------------------------------------------------------
C18_HostWins ==
  op.kind = "firstUpdated" =>
    \A i \in 1..Len(op.instances) : \A p \in op.instances[i].val.declared :
      (/\ HostBefore(p) # "undefined"
       /\ HostBefore(p) # getInternalValue(op.instances[i].val, p)) =>
        /\ getInternalValue(InstAfter(op.instances[i].name), p) = HostValue(OpHost, p)
        /\ HostValue(OpHost, p) = HostBefore(p)
        /\ \A k \in 1..Len(op.events) : op.events[k].prop # p

C18_Witness ==
  /\ op.kind = "firstUpdated"
  /\ HostBefore("p") = "large"
  /\ getInternalValue(InstBefore("F"), "p") = "small"
  /\ getInternalValue(InstAfter("F"), "p") = "large"
  /\ HostValue(OpHost, "p") = "large"

\* ------------------------------------------------------------------------
\* C19: in the first update pass, for every property a feature declares
\* whose host value is undefined while the feature caches a value d that is
\* not undefined, the host's value of the property is d afterwards.
\* ------------------------------------------------------------------------
C19_FeatureDefaultWins ==
  op.kind = "firstUpdated" =>
    \A i \in 1..Len(op.instances) : \A p \in op.instances[i].val.declared :
      (/\ HostBefore(p) = "undefined"
       /\ getInternalValue(op.instances[i].val, p) # "undefined") =>
        HostValue(OpHost, p) = getInternalValue(op.instances[i].val, p)

\* ------------------------------------------------------------------------
\* C20: an update pass after the first copies, for every name it reports
\* as changed, the host's value into every feature's cache; it writes no
\* host property, requests no update, and leaves the cached values of all
\* other names as they were.
\* ------------------------------------------------------------------------
C20_OneWaySync ==
  op.kind = "updated" =>
    /\ op.events = <<>>
    /\ OpHost.values = op.host
    /\ \A i \in 1..Len(op.instances) :
         LET before == op.instances[i].val
             after == InstAfter(op.instances[i].name)
         IN  /\ \A p \in op.changed : getInternalValue(after, p) = HostValue(OpHost, p)
             /\ \A p \in {"p", "q", "r", "g", "h"} \ op.changed :
                  /\ (p \in DOMAIN after.internal) = (p \in DOMAIN before.internal)
                  /\ getInternalValue(after, p) = getInternalValue(before, p)

C20_Witness ==
  /\ op.kind = "updated" /\ op.changed = {"p"}
  /\ HostBefore("p") = "large" /\ HostBefore("q") = "large"
  /\ getInternalValue(InstBefore("F"), "p") = "small"
  /\ getInternalValue(InstBefore("F"), "q") = "small"
  /\ getInternalValue(InstAfter("F"), "p") = "large"
  /\ getInternalValue(InstAfter("F"), "q") = "small"

\* ------------------------------------------------------------------------
\* C21: a host has exactly one feature instance per entry of its class's
\* resolved features, constructed and kept in the order of that mapping;
\* every dispatch of a callback in which no hook throws calls each hook on
\* exactly the instances whose class defines it, in that same order, with
\* the arguments the callback received.
\* ------------------------------------------------------------------------
NamesOf(m) == [i \in 1..Len(m) |-> m[i].name]

ConstructedNames(log) ==
  LET cs == SelectSeq(log, LAMBDA x : x.e = "construct")
  IN  [i \in 1..Len(cs) |-> cs[i].by]

\* the calls one dispatch of methodName makes on a host of class K
CallsOf(K, methodName, args) ==
  LET fs == SelectSeq(cache[K].features, LAMBDA e : Defines(e.val.class, methodName))
  IN  [i \in 1..Len(fs) |-> [by |-> fs[i].name, method |-> methodName, args |-> args]]

C21_DeclarationOrder ==
  /\ \A c \in DeclClasses : \A i \in 1..Len(hosts[c]) :
       /\ NamesOf(hosts[c][i].instances) = NamesOf(cache[c].features)
       /\ ConstructedNames(hosts[c][i].log) = NamesOf(cache[c].features)
  /\ (op.kind = "connectedCallback" /\ op.thrown = "") =>
       op.calls = CallsOf(op.cls, "beforeConnectedCallback", op.args)
                    \o CallsOf(op.cls, "connectedCallback", op.args)
                    \o CallsOf(op.cls, "afterConnectedCallback", op.args)
  /\ (op.kind = "attributeChangedCallback" /\ op.thrown = "") =>
       op.calls = CallsOf(op.cls, "beforeAttributeChangedCallback", op.args)
                    \o CallsOf(op.cls, "attributeChangedCallback", op.args)
                    \o CallsOf(op.cls, "afterAttributeChangedCallback", op.args)

C21_Witness ==
  /\ op.kind = "attributeChangedCallback" /\ op.cls = "A" /\ op.thrown = ""
  /\ NamesOf(op.instances) = <<"F", "G", "H">>
  /\ op.calls =
       <<[by |-> "G", method |-> "attributeChangedCallback", args |-> <<"p", "null", "large">>],
         [by |-> "H", method |-> "attributeChangedCallback", args |-> <<"p", "null", "large">>]>>

\* ------------------------------------------------------------------------
\* C22: when the hook of a feature throws during a dispatch, the hooks of
\* the features before it in the order have been called, the hooks of the
\* features after it are not called, nothing further is dispatched by the
\* callback, and the error reaches the caller.
\* ------------------------------------------------------------------------
PhasesOf(kind) ==
  IF kind = "connectedCallback"
  THEN <<"beforeConnectedCallback", "connectedCallback", "afterConnectedCallback">>
  ELSE <<"beforeAttributeChangedCallback", "attributeChangedCallback",
         "afterAttributeChangedCallback">>

\* the calls of the phases before the k-th one
RECURSIVE CallsBefore(_, _, _, _)
CallsBefore(K, phases, k, args) ==
  IF k <= 1 THEN <<>>
  ELSE CallsBefore(K, phases, k - 1, args) \o CallsOf(K, phases[k - 1], args)

C22_Throws(n, m) ==
  /\ op.throws = {<<n, m>>}
  /\ MapHas(op.instances, n)
  /\ Defines(MapGet(op.instances, n).class, m)
  /\ \E k \in 1..3 : PhasesOf(op.kind)[k] = m

C22_AbortsThePass ==
  op.kind \in {"connectedCallback", "attributeChangedCallback"} =>
    \A n \in {"F", "G", "H"} : \A m \in HookNames :
      C22_Throws(n, m) =>
        LET k == CHOOSE j \in 1..3 : PhasesOf(op.kind)[j] = m
            all == CallsOf(op.cls, m, op.args)
            at == CHOOSE j \in 1..Len(all) : all[j].by = n
        IN  /\ op.thrown = n
            /\ op.calls = CallsBefore(op.cls, PhasesOf(op.kind), k, op.args)
                            \o SubSeq(all, 1, at)

C22_Witness ==
  /\ op.kind = "connectedCallback" /\ op.cls = "A"
  /\ op.throws = {<<"G", "connectedCallback">>}
  /\ op.thrown = "G"
  /\ [i \in 1..Len(op.calls) |-> <<op.calls[i].by, op.calls[i].method>>] =
       <<<<"G", "beforeConnectedCallback">>, <<"F", "connectedCallback">>,
         <<"G", "connectedCallback">>>>

\* ------------------------------------------------------------------------
\* C23: a feature whose name is already a field of the host when it is
\* attached leaves that field's value alone, is attached under the name
\* with "_" in front, raises a warning, and is still called in every
\* dispatch; a feature whose name is free is attached under its name,
\* without a warning.
\* ------------------------------------------------------------------------
C23_Attached(h, n) ==
  LET inst == MapGet(h.instances, n)
      warned == \E k \in 1..Len(h.log) : h.log[k] = Ev("warn", n, "", "")
  IN  IF n \in DOMAIN h.born
      THEN /\ HostValue(h, n) = h.born[n]
           /\ inst.key = "_" \o n
           /\ HostValue(h, "_" \o n) = InstanceRef(n)
           /\ warned /\ h.warnings >= 1
      ELSE /\ inst.key = n
           /\ HostValue(h, n) = InstanceRef(n)
           /\ ~warned

C23_AttachConflict ==
  /\ \A c \in DeclClasses : \A i \in 1..Len(hosts[c]) :
       \A n \in MapKeys(hosts[c][i].instances) : C23_Attached(hosts[c][i], n)
  /\ (op.kind \in {"connectedCallback", "attributeChangedCallback"} /\ op.thrown = "") =>
       \A j \in 1..Len(op.instances) : \A k \in 1..3 :
         (/\ op.instances[j].val.key # op.instances[j].name
          /\ Defines(op.instances[j].val.class, PhasesOf(op.kind)[k])) =>
           \E x \in 1..Len(op.calls) :
             op.calls[x] = [by |-> op.instances[j].name,
                            method |-> PhasesOf(op.kind)[k], args |-> op.args]

C23_Witness ==
  /\ Len(hosts["A"]) = 1
  /\ hosts["A"][1].born = ("G" :> "large")
  /\ HostValue(hosts["A"][1], "G") = "large"
  /\ MapGet(hosts["A"][1].instances, "G").key = "_G"
  /\ MapGet(hosts["A"][1].instances, "F").key = "F"
  /\ hosts["A"][1].warnings = 1
  /\ op.kind = "connectedCallback" /\ op.cls = "A" /\ op.thrown = ""
  /\ \E x \in 1..Len(op.calls) : op.calls[x].by = "G" /\ op.calls[x].method = "connectedCallback"

\* ------------------------------------------------------------------------
\* C24: the config of a feature instance is its own copy: a step in which
\* a feature instance writes into its config (the only step that leaves
\* the hosts, the decorators applied and the resolver's bookkeeping alone)
\* changes neither a cached plan, which is what every other host's
\* instance of the feature is given, nor a provide or configure declaration.
\* ------------------------------------------------------------------------
C24_ConfigIsInstanceLocal ==
  [][(hosts' = hosts /\ late' = late /\ ret' = ret /\ folds' = folds) =>
       /\ \A K \in DeclClasses : PlanContent(cache'[K]) = PlanContent(cache[K])
       /\ decl' = decl]_vars

\* the prototype chain of c, root-most class first
RECURSIVE Ancestry(_)
Ancestry(c) == IF c = "null" THEN <<>> ELSE Append(Ancestry(CtorParent(c)), c)

\* class x reads a true marker: the nearest class at or above x that says
\* anything about the marker says true
MarkedUnder(marks, x) ==
  LET a == Ancestry(x)
      said == {i \in 1..Len(a) : marks[a[i]] # "absent"}
  IN  said # {} /\ \A i \in said : (\A j \in said : j <= i) => marks[a[i]] = "true"

\* ------------------------------------------------------------------------
\* C25: the chain the walker returns for a class is, root-most first, the
\* unbroken run of marked classes of the prototype chain that ends with
\* the class itself: every class in it is marked, the class just above
\* the run is unmarked or there is none, nothing is returned for an
\* unmarked class, and a marked class whose parent is unmarked gives a
\* chain of length 1.
\* ------------------------------------------------------------------------
C25_ChainWalker ==
  op.kind = "getInheritanceChain" =>
    LET a == Ancestry(op.ctor)
        n == Len(a)
        r == op.result
        run == {i \in 1..n : \A j \in i..n : MarkedUnder(op.marks, a[j])}
        len == Cardinality(run)
    IN  /\ r = SubSeq(a, n - len + 1, n)
        /\ \A i \in 1..Len(r) : MarkedUnder(op.marks, r[i])
        /\ (MarkedUnder(op.marks, op.ctor) /\ ~(n > 1 /\ MarkedUnder(op.marks, a[n - 1])))
             => r = <<op.ctor>>
        /\ ~MarkedUnder(op.marks, op.ctor) => r = <<>>

\* the walk from C stops at A, which overrides the marker, although LitCore
\* above it is marked
C25_Witness ==
  /\ op.kind = "getInheritanceChain"
  /\ op.ctor = "C"
  /\ op.marks["LitCore"] = "true" /\ op.marks["A"] = "false" /\ op.marks["B"] = "true"
  /\ op.result = <<"B", "C">>

\* the classes of a feature class's chain that declare property k themselves,
\* in a static properties field or with the property decorator
DeclaresProp(c, k) ==
  \/ FeatOwnProps(c).has /\ k \in DOMAIN FeatOwnProps(c).val
  \/ FeatOwnMeta(c).has /\ k \in DOMAIN FeatOwnMeta(c).val

\* what class c itself declares for k
OwnDeclaration(c, k) ==
  IF FeatOwnMeta(c).has /\ k \in DOMAIN FeatOwnMeta(c).val THEN FeatOwnMeta(c).val[k]
  ELSE FeatOwnProps(c).val[k]

\* the declaration of k by the leaf-most class of f's chain that declares k
RECURSIVE LeafMostDeclaration(_, _)
LeafMostDeclaration(f, k) ==
  IF f = "null" THEN "none"
  ELSE IF DeclaresProp(f, k) THEN OwnDeclaration(f, k)
       ELSE LeafMostDeclaration(FeatParent(f), k)

\* the property names K's chain overrides for feature n
OverriddenProps(K, n) ==
  LET configs == Collected(K).configs
  IN  IF MapHas(configs, n) /\ MapGet(configs, n).kind = "entry"
      THEN DOMAIN MapGet(configs, n).props ELSE {}

\* ------------------------------------------------------------------------
\* C26: in a resolved plan, every property that a class of an active
\* feature's class chain declares, and that no configure entry overrides,
\* is in the plan's properties with the declaration of the leaf-most
\* class of the chain that declares it: the feature subclass wins over
\* its superclass, and what only the superclass declares is kept.
\* ------------------------------------------------------------------------
C26_SubclassDeclarationWins ==
  \A K \in DeclClasses : cache[K].has =>
    \A n \in MapKeys(cache[K].features) :
      LET f == MapGet(cache[K].features, n).class
      IN  \A k \in {"p", "q", "r", "g", "h"} :
            (LeafMostDeclaration(f, k) # "none" /\ k \notin OverriddenProps(K, n)) =>
              /\ k \in DOMAIN cache[K].properties
              /\ cache[K].properties[k] = LeafMostDeclaration(f, k)

\* ------------------------------------------------------------------------
\* C27: a decorator writes the store of the class it is applied to and
\* nothing else. After a provide or configure decorator on host class c,
\* c has a store of its own, every other class has the store and the
\* static fields it had, and c's static fields are as they were; after a
\* property decorator on feature class c, c has its own store and its own
\* static properties, and no other feature class's store or static
\* properties changed.
\* ------------------------------------------------------------------------
C27_OwnStoreOnly ==
  /\ op.kind = "decorate" =>
       /\ decl[op.cls].meta.has
       /\ decl[op.cls].provide = op.before[op.cls].provide
       /\ decl[op.cls].configure = op.before[op.cls].configure
       /\ \A d \in DeclClasses \ {op.cls} : decl[d] = op.before[d]
  /\ op.kind = "property" =>
       /\ op.after[op.ctor].meta.has /\ op.after[op.ctor].props.has
       /\ op.propertyKey \in DOMAIN op.after[op.ctor].meta.val
       /\ \A f \in FeatureClasses \ {op.ctor} : op.after[f] = op.before[f]

\* B is decorated for the first time while its parent A and its child C
\* have stores of their own
C27_Witness ==
  /\ op.kind = "decorate" /\ op.cls = "B"
  /\ ~op.before["B"].meta.has /\ op.before["A"].meta.has /\ op.before["C"].meta.has
  /\ decl["B"].meta.has /\ decl["B"].meta # op.before["A"].meta

\* class c declares nothing: no static provide, no static configure, no store
DeclaresNothing(c) ==
  ~decl[c].provide.has /\ ~decl[c].configure.has /\ ~decl[c].meta.has

\* the plan of K's chain when the configure entries for names that no class
\* of the chain provides are left out
PlanOfProvidedOnly(K) ==
  LET st == Collected(K)
      provided == MapKeys(st.provides)
      kept == SelectSeq(st.configs, LAMBDA e : e.name \in provided)
  IN  Build(st.provides, kept,
            [met |-> <<>>, properties |-> EmptyObj, styles |-> <<>>, features |-> <<>>])

\* ------------------------------------------------------------------------
\* C28: as long as no decorator ran after the class bodies, every plan
\* in the cache is the plan of the declarations as they are, and: the
\* plan of a class whose chain declares nothing is empty, and the
\* features, properties and styles of any plan are those the chain gives
\* without its configure entries for names that nothing provides.
\* ------------------------------------------------------------------------
C28_MissingMetadataIsEmpty ==
  late = 0 =>
    \A K \in DeclClasses : cache[K].has =>
      /\ (\A c \in ChainOf(K) : DeclaresNothing(c)) =>
           /\ cache[K].features = <<>>
           /\ cache[K].properties = EmptyObj
           /\ cache[K].styles = <<>>
      /\ cache[K].features = PlanOfProvidedOnly(K).features
      /\ cache[K].properties = PlanOfProvidedOnly(K).properties
      /\ cache[K].styles = PlanOfProvidedOnly(K).styles

\* C's chain provides G only and carries a disable and an object entry for
\* F, which nothing provides: the plan of C is that of G alone
C28_Witness ==
  /\ late = 0 /\ cache["C"].has
  /\ MapKeys(Collected("C").provides) = {"G"}
  /\ MapHas(Collected("C").configs, "F")
  /\ MapKeys(cache["C"].features) = {"G"}
  /\ DOMAIN cache["C"].properties = {"g"}

\* ------------------------------------------------------------------------
\* C30: the entries written for one feature name are folded root to leaf.
\* When the last entry is a disable the result is disable, whatever came
\* before. Otherwise the result is built from the entries after the last
\* disable alone, and those entries are merged, not replaced: the result
\* has every config key any of them writes, with the value of the last
\* writer for a plain value and the union of the written keys for a
\* nested object, and a property override is in the result with the value
\* of the last entry that mentions it; a property disable removes the
\* override accumulated before it.
\* ------------------------------------------------------------------------
C30_FoldOfEntries ==
  op.kind = "mergeConfigEntries" =>
    LET es == op.entries
        n == Len(es)
        r == op.result
        dis == {i \in 1..n : es[i].kind = "disable"}
        d == IF dis = {} THEN 0 ELSE CHOOSE i \in dis : \A j \in dis : j <= i
        live == (d + 1)..n
        Last(S) == CHOOSE i \in S : \A j \in S : j <= i
        Writers(k) == {i \in live : k \in DOMAIN es[i].config}
        NestWriters(k, m) ==
          {i \in Writers(k) : es[i].config[k].t = "obj" /\ m \in DOMAIN es[i].config[k].o}
        Mentions(q) == {i \in live : q \in DOMAIN es[i].props}
    IN  /\ d = n => r = Disable
        /\ d < n =>
             /\ r.kind = "entry"
             /\ r = foldEntries(SubSeq(es, d + 1, n))
             /\ DOMAIN r.config = UNION {DOMAIN es[i].config : i \in live}
             /\ \A k \in DOMAIN r.config :
                  IF es[Last(Writers(k))].config[k].t = "num"
                  THEN r.config[k] = es[Last(Writers(k))].config[k]
                  ELSE /\ r.config[k].t = "obj"
                       /\ DOMAIN r.config[k].o =
                            UNION {DOMAIN es[i].config[k].o : i \in Writers(k)}
                       /\ \A m \in DOMAIN r.config[k].o :
                            r.config[k].o[m] = es[Last(NestWriters(k, m))].config[k].o[m]
             /\ \A q \in {"p", "q"} :
                  /\ q \in DOMAIN r.props <=>
                       /\ Mentions(q) # {}
                       /\ es[Last(Mentions(q))].props[q] = "disable" => Last(Mentions(q)) = d + 1
                  /\ q \in DOMAIN r.props => r.props[q] = es[Last(Mentions(q))].props[q]

\* a config entry, a disable, and two entries after it: the result has
\* the keys of the last two entries merged and nothing of the first
C30_Witness ==
  /\ op.kind = "mergeConfigEntries" /\ Len(op.entries) = MaxEntries
  /\ op.entries[MaxEntries - 2].kind = "disable"
  /\ DOMAIN op.entries[MaxEntries - 1].config = {"y", "nested"}
  /\ DOMAIN op.entries[MaxEntries].config = {"x"}
  /\ DOMAIN op.result.config = {"x", "y", "nested"}
  /\ DOMAIN op.result.config["nested"].o = {"b"}
  /\ DOMAIN op.result.props = {"q"}

\* ------------------------------------------------------------------------
\* C29: an update pass issues no update request: the first
\* reconciliation and updated of the features only copy or settle values.
\* So no more requests are issued than writes are made from outside, and
\* once the host answers every pending request with an update pass, no
\* request stays pending for ever.
\* ------------------------------------------------------------------------
C29_NoPingPong ==
  /\ [](op.kind \in {"firstUpdated", "updated"} => Requests(op.events) = <<>>)
  /\ [](pending.issued <= pending.writes)
  /\ <>[](pending.requests = 0)

\* the writes from outside are used up, requests were issued by them and
\* the last of them has just been answered by an update pass
C29_Witness ==
  /\ pending.writes = MaxWrites
  /\ pending.issued > 1
  /\ pending.requests = 0
  /\ op.kind = "updated" /\ op.changed # {}

\* the before, main and after hook of each LitCore callback
HooksInOrder(kind) ==
  CASE kind = "connectedCallback" ->
         <<"beforeConnectedCallback", "connectedCallback", "afterConnectedCallback">>
    [] kind = "disconnectedCallback" ->
         <<"beforeDisconnectedCallback", "disconnectedCallback", "afterDisconnectedCallback">>
    [] kind = "firstUpdated" -> <<"beforeFirstUpdated", "firstUpdated", "afterFirstUpdated">>
    [] kind = "updated" -> <<"beforeUpdated", "updated", "afterUpdated">>
    [] OTHER -> <<"beforeAttributeChangedCallback", "attributeChangedCallback",
                  "afterAttributeChangedCallback">>

\* the pass of the callback kind that the hook named m belongs to
PassOf(kind, m) == CHOOSE k \in 1..3 : HooksInOrder(kind)[k] = m

\* the arguments the callback hands to the hooks
HookArgs == IF op.kind \in {"firstUpdated", "updated"} THEN op.changed ELSE op.args

\* ------------------------------------------------------------------------
\* C31: in every callback of the host (connect, disconnect, first update,
\* update, attribute change) the hook calls come pass by pass: every
\* before hook, then every main hook, then every after hook. The step of
\* the host's base class runs once, after the before pass (after the main
\* pass in disconnect) and before the pass that follows. When a hook
\* throws, its call is the last one of the callback, and the base class's
\* step has run only if it comes before the pass of that hook.
\* ------------------------------------------------------------------------
C31_PassOrder ==
  op.kind \in {"connectedCallback", "disconnectedCallback", "firstUpdated", "updated",
               "attributeChangedCallback"} =>
    LET calls == op.calls
        n == Len(calls)
        ph(i) == PassOf(op.kind, calls[i].method)
        edge == IF op.kind = "disconnectedCallback" THEN 2 ELSE 1
        hooks == HooksInOrder(op.kind)
    IN  /\ \A i \in 1..n : \E k \in 1..3 : hooks[k] = calls[i].method
        /\ \A i \in 1..n : \A j \in i..n : ph(i) <= ph(j)
        /\ Len(op.base) <= 1
        /\ \A b \in 1..Len(op.base) :
             /\ op.base[b].method = op.kind
             /\ \A i \in 1..n : (i <= op.base[b].at) <=> (ph(i) <= edge)
        /\ op.thrown = "" =>
             /\ Len(op.base) = 1
             /\ calls = CallsOf(op.cls, hooks[1], HookArgs)
                          \o CallsOf(op.cls, hooks[2], HookArgs)
                          \o CallsOf(op.cls, hooks[3], HookArgs)
        /\ op.thrown # "" =>
             /\ n >= 1
             /\ calls[n].by = op.thrown
             /\ <<calls[n].by, calls[n].method>> \in op.throws
             /\ Len(op.base) = 1 <=> ph(n) > edge

\* G throws in the main pass of disconnect: G's before hook and F's main
\* hook ran, H's after hook and the base class's step did not
C31_Witness ==
  /\ op.kind = "disconnectedCallback" /\ op.cls = "A"
  /\ op.thrown = "G"
  /\ op.base = <<>>
  /\ [i \in 1..Len(op.calls) |-> <<op.calls[i].by, op.calls[i].method>>] =
       <<<<"G", "beforeDisconnectedCallback">>, <<"F", "disconnectedCallback">>,
         <<"G", "disconnectedCallback">>>>

\* the own static properties of class k in hierarchy d, {} when it has none
OwnPropsIn(d, k) == IF d[k].properties.has THEN d[k].properties.val ELSE EmptyObj

\* the static properties the parent of class k answers with in hierarchy d:
\* those of the nearest class above k that has the field, {} when none has
ParentPropsIn(d, k) ==
  LET anc == Ancestry(CtorParent(k))
      owners == {j \in 1..Len(anc) : anc[j] \in DeclClasses /\ d[anc[j]].properties.has}
  IN  IF owners = {} THEN EmptyObj
      ELSE d[anc[CHOOSE j \in owners : \A i \in owners : i <= j]].properties.val

\* ------------------------------------------------------------------------
\* C32: finalization leaves on the class the property declarations of
\* three sources: for every name, the class's own declaration when it has
\* one, else the declaration of the resolved features, else the parent
\* class's; and no other name.
\* ------------------------------------------------------------------------
C32_MergePrecedence ==
  op.kind = "finalize" =>
    \A i \in 1..Len(op.ran) :
      LET k == op.ran[i]
          own == OwnPropsIn(op.before, k)
          plan == cache[k].properties
          par == ParentPropsIn(op.before, k)
          got == decl[k].properties
      IN  /\ cache[k].has
          /\ got.has
          /\ DOMAIN got.val = (DOMAIN own) \cup (DOMAIN plan) \cup (DOMAIN par)
          /\ \A n \in DOMAIN got.val :
               got.val[n] = IF n \in DOMAIN own THEN own[n]
                            ELSE IF n \in DOMAIN plan THEN plan[n] ELSE par[n]

\* B is finalized: the parent declares p and z, feature F declares p and q,
\* B declares q and z; p is the feature's, q and z are B's own
C32_Witness ==
  /\ op.kind = "finalize" /\ op.cls = "B"
  /\ "p" \in DOMAIN ParentPropsIn(op.before, "B")
  /\ ParentPropsIn(op.before, "B")["p"] = "a"
  /\ cache["B"].properties = ("p" :> "d1") @@ ("q" :> "d1")
  /\ decl["B"].properties.val = ("p" :> "d1") @@ ("q" :> "b") @@ ("z" :> "b")

\* ------------------------------------------------------------------------
\* C33: a host class that declares nothing itself (no static provide or
\* configure, no decorator) resolves to the plan of its direct parent: the
\* same active features in the same order, with the same final config,
\* and the same properties, whether the classes above declare with static
\* fields, with decorators or with both.
\* ------------------------------------------------------------------------
C33_NothingDeclaredSameAsParent ==
  \A K \in DeclClasses :
    (/\ DeclaresNothing(K)
     /\ CtorParent(K) \in DeclClasses
     /\ cache[K].has
     /\ cache[CtorParent(K)].has)
    => /\ PlanContent(cache[K]).features = PlanContent(cache[CtorParent(K)]).features
       /\ cache[K].properties = cache[CtorParent(K)].properties

WrittenAbove(K) == UNION {DOMAIN decl[c].written : c \in ChainOf(K)}

\* ------------------------------------------------------------------------
\* C35: the property declarations of a finalized host class hold only
\* names of its resolved plan and names a host class of its chain
\* declares itself: a property that only a feature disabled for the
\* class declares, or that a configure entry removes for the class, is
\* not among them, in whatever order the classes were finalized.
\* ------------------------------------------------------------------------
C35_NoDisabledFeatureProps ==
  \A K \in DeclClasses :
    (decl[K].finalized /\ cache[K].has) =>
      DOMAIN decl[K].properties.val \subseteq (DOMAIN cache[K].properties) \cup WrittenAbove(K)

\* the host fields the events write through a feature's accessor
WrittenBy(events) == {events[j].prop : j \in {k \in 1..Len(events) : events[k].e = "set"}}

\* ------------------------------------------------------------------------
\* C36: a feature instance writes a host field, while it is constructed,
\* in a later write through its accessor or in the first reconciliation,
\* only when the field's name is a key of the properties of the host
\* class's resolved plan; a property that a configure entry removes with
\* p: disable is never written to the host by the feature.
\* ------------------------------------------------------------------------
C36_WritesOnlyPlanProperties ==
  /\ \A c \in DeclClasses : \A i \in 1..Len(hosts[c]) :
       WrittenBy(hosts[c][i].log) \subseteq DOMAIN cache[c].properties
  /\ op.kind \in {"set", "firstUpdated"} =>
       WrittenBy(op.events) \subseteq DOMAIN cache[op.cls].properties

\* ------------------------------------------------------------------------
\* C37: the plan of a class depends on the declarations of its chain
\* only, not on the classes resolved before it; a call on class K returns
\* K's own plan object, never the cached plan of its parent or of another
\* class; and a call leaves the cached plan of every other class as it is.
\* ------------------------------------------------------------------------
C37_PlanPerClass ==
  /\ [](/\ \A K \in DeclClasses :
             cache[K].has => PlanContent(cache[K]) = PlanContent(Resolved(K, cache[K].id))
        /\ ret.cls \in DeclClasses =>
             /\ cache[ret.cls].has
             /\ ret.id = cache[ret.cls].id)
  /\ [][\A J \in DeclClasses : J # ret'.cls => cache'[J] = cache[J]]_vars

\* B is resolved after its parent A, whose plan is cached: the call
\* computes B's own plan, which differs from A's
C37_Witness ==
  /\ ret.cls = "B" /\ ~ret.hit
  /\ cache["A"].has /\ cache["B"].has
  /\ PlanContent(cache["B"]) # PlanContent(cache["A"])
  /\ ~cache["C"].has

\* ------------------------------------------------------------------------
\* C38: the names a feature instance installs accessors for are the names
\* the resolver collects from the chain of the feature's class, before
\* configure overrides: also the names that only a superclass of the
\* feature's class declares, in a static properties field or with the
\* property decorator.
\* ------------------------------------------------------------------------
C38_AccessorsAreCollectedNames ==
  \A c \in DeclClasses : \A i \in 1..Len(hosts[c]) :
    \A k \in 1..Len(hosts[c][i].instances) :
      LET inst == hosts[c][i].instances[k].val
      IN  inst.declared = DOMAIN collectFeatureProperties(inst.class)

\* ------------------------------------------------------------------------
\* C39: whatever calls were made, the value cache of a feature instance
\* holds entries only for names of the instance's declared properties.
\* ------------------------------------------------------------------------
C39_CacheHoldsDeclaredOnly ==
  \A c \in DeclClasses : \A i \in 1..Len(hosts[c]) :
    \A k \in 1..Len(hosts[c][i].instances) :
      LET inst == hosts[c][i].instances[k].val
      IN  DOMAIN inst.internal \subseteq inst.declared

====
